---- MODULE Spec2Model ----
(***************************************************************************)
(* A state-machine model of the intraday stale-while-revalidate cache      *)
(* service (src/src/server/services/intraday_cache_service.py).            *)
(*                                                                         *)
(* The service runs on one asyncio event loop: a coroutine runs without    *)
(* interruption from one await to the next.  Every action below is one     *)
(* such uninterrupted stretch, merged with the backend or upstream         *)
(* operation whose completion resumes it.                                  *)
(*                                                                         *)
(* Strings are sequences of one-character strings, Optional[x] values are  *)
(* records [some, v], lists of data points are sequences.                  *)
(***************************************************************************)
EXTENDS Integers, Sequences, FiniteSets, TLC

VARIABLES
    workload,       \* the request each top-level call makes
    cfg,            \* the configuration read by _get_ttl / _get_soft_ttl_ratio
    cache,          \* the cache backend: key -> entry
    refresh_locks,  \* IntradayCacheService._refresh_locks: key -> locked?
    calls,          \* the top-level get_*_intraday calls (coroutines)
    tasks,          \* the detached _background_refresh tasks, one per call
    max_concurrent_fetches, \* IntradayCacheService._max_concurrent_fetches
    semaphore,      \* IntradayCacheService._semaphore: the permits left
    batch_workload, \* the request each top-level get_batch_* call makes
    batches,        \* the get_batch_* calls: locals, and per listed symbol
                    \* its check_cache / fetch_from_api coroutine and the
                    \* detached task that coroutine creates
    builds,         \* key-builder invocations: arguments and returned key
    instance        \* the class attribute _instance: whether the service has
                    \* been made, and how often __new__ has been called

\* the state of the batch path
batch_vars == <<max_concurrent_fetches, semaphore, batch_workload, batches>>

vars == <<workload, cfg, cache, refresh_locks, calls, tasks, batch_vars,
          builds, instance>>

---------------------------------------------------------------------------
(* Bounds of the model *)

\* number of top-level single calls
MaxCalls == 2

\* the configured hard TTL, in clock ticks, of the main specification
HardTTL == 2

---------------------------------------------------------------------------
(* Program constants *)

\* get_nested_config("redis.ttl.intraday_1min", 60)
DefaultTTL == 60

\* _max_concurrent_fetches: int = 10
MaxConcurrentFetches == 10

\* get_nested_config("redis.swr.soft_ttl_ratio", 0.5), as SoftNum / SoftDen
SoftNum == 1

SoftDen == 2

---------------------------------------------------------------------------
(* Optional values *)

NoneInt == [some |-> FALSE, v |-> 0]

SomeInt(n) == [some |-> TRUE, v |-> n]

NoneData == [some |-> FALSE, v |-> <<>>]

SomeData(d) == [some |-> TRUE, v |-> d]

\* the error field of a result: Optional[str]
NoError == "None"

---------------------------------------------------------------------------
(* IntradayCacheKeyBuilder *)

\* str.upper(), character by character
UpperChar(ch) ==
    CASE ch = "a" -> "A"
      [] ch = "b" -> "B"
      [] OTHER -> ch

\* mutant: the symbol is used as spelled
UpperAsSpelled(s) == s

Upper(s) == [i \in 1..Len(s) |-> UpperChar(s[i])]

\* str.lstrip("^"): every leading "^" is removed
RECURSIVE LStripCaret(_)
LStripCaret(s) ==
    IF s # <<>> /\ Head(s) = "^" THEN LStripCaret(Tail(s)) ELSE s

\* `if from_date:` -- None and the empty string are both falsy
Truthy(opt) == opt.some /\ opt.v # <<>>

NoneStr == [some |-> FALSE, v |-> <<>>]

SomeStr(s) == [some |-> TRUE, v |-> s]

PREFIX == <<"fmp", ":", "intraday">>

KeyTail(interval, from_date, to_date) ==
    <<":", "interval", "=">> \o interval
    \o (IF Truthy(from_date) THEN <<":", "from", "=">> \o from_date.v ELSE <<>>)
    \o (IF Truthy(to_date) THEN <<":", "to", "=">> \o to_date.v ELSE <<>>)

stock_key(symbol, interval, from_date, to_date) ==
    PREFIX \o <<":", "stock", ":", "symbol", "=">> \o Upper(symbol)
    \o KeyTail(interval, from_date, to_date)

index_key(symbol, interval, from_date, to_date) ==
    LET normalized_symbol == Upper(LStripCaret(symbol))
    IN  PREFIX \o <<":", "index", ":", "symbol", "=">> \o normalized_symbol
        \o KeyTail(interval, from_date, to_date)

\* _get_intraday lines 227-230
CacheKey(is_index, symbol, interval, from_date, to_date) ==
    IF is_index THEN index_key(symbol, interval, from_date, to_date)
    ELSE stock_key(symbol, interval, from_date, to_date)

\* mutant: the symbol is uppercased but keeps its marker
NormalizedSymbolKeepsMarker(symbol) == Upper(symbol)

\* _get_intraday line 233
NormalizedSymbol(symbol) == Upper(LStripCaret(symbol))

---------------------------------------------------------------------------
(* The requests of the main specification *)

OneMin == <<"1", "m", "i", "n">>

Req(is_index, symbol) ==
    [is_index |-> is_index, symbol |-> symbol, interval |-> OneMin,
     from_date |-> NoneStr, to_date |-> NoneStr]

KeyOf(r) == CacheKey(r.is_index, r.symbol, r.interval, r.from_date, r.to_date)

Calls == 1..MaxCalls

\* What the callers ask for, fixed when the run starts: every call asks for
\* the same stock under alternating spellings, or the calls alternate
\* between a stock and an index.
SameKeyWorkload ==
    [c \in Calls |->
        IF c % 2 = 1 THEN Req(FALSE, <<"a">>) ELSE Req(FALSE, <<"A">>)]

TwoKeyWorkload ==
    [c \in Calls |->
        IF c % 2 = 1 THEN Req(FALSE, <<"a">>) ELSE Req(TRUE, <<"^", "A">>)]

Workloads == { SameKeyWorkload, TwoKeyWorkload }

KeysOf(w) == { KeyOf(w[c]) : c \in DOMAIN w }

---------------------------------------------------------------------------
(* Configuration *)

\* _get_ttl
GetTtl == cfg.ttl

\* mutant: the ratio is taken as the elapsed share of the TTL
GetSoftTtlRatioElapsed == [num |-> cfg.den - cfg.num, den |-> cfg.den]

\* _get_soft_ttl_ratio, as the pair numerator / denominator
GetSoftTtlRatio == [num |-> cfg.num, den |-> cfg.den]

---------------------------------------------------------------------------
(* The cache backend (src.utils.cache.redis_cache is not part of the       *)
(* sources: get_with_swr, ttl and set follow the documented contract)      *)

Absent == [present |-> FALSE, data |-> <<>>, ttl |-> 0]

Entry(data, ttl) == [present |-> TRUE, data |-> data, ttl |-> ttl]

\* get_with_swr(key, original_ttl, soft_ttl_ratio) -> (payload_or_none, needs_refresh)
GetWithSWR(entry, original_ttl, ratio) ==
    IF ~entry.present \/ entry.ttl <= 0
    THEN [data |-> NoneData, needs_refresh |-> FALSE]
    ELSE [data |-> SomeData(entry.data),
          needs_refresh |-> entry.ttl * ratio.den <= original_ttl * ratio.num]

\* ttl(key) -> seconds_or_none: none, zero or negative for an absent or
\* expired key
BackendTtl(entry) ==
    IF entry.present /\ entry.ttl > 0
    THEN { SomeInt(entry.ttl) }
    ELSE { NoneInt, SomeInt(0), SomeInt(-2) }

\* set(key, payload, ttl): unconditional overwrite
BackendSet(store, key, data, ttl) == [store EXCEPT ![key] = Entry(data, ttl)]

\* one clock tick: every remaining TTL drops by one, an entry at zero is gone
Expire(store) ==
    [k \in DOMAIN store |->
        IF store[k].present /\ store[k].ttl > 1
        THEN Entry(store[k].data, store[k].ttl - 1)
        ELSE Absent]

---------------------------------------------------------------------------
(* The upstream provider (FMPClient.get_intraday_chart)                    *)

\* the upstream request sent for call c (by the call itself or by its refresh
\* task) answers with a data point of its own, with nothing (None or an
\* empty list), or with an error
UpstreamOutcomes == {"ok", "empty", "fail"}

\* `data if data else []`  (_fetch_from_fmp line 124, _get_batch line 422)
FetchedData(outcome, c) == IF outcome = "ok" THEN <<c>> ELSE <<>>

\* _fetch_from_fmp lines 113-115; symbol is the normalized symbol its
\* callers pass
ApiSymbol(symbol, is_index) ==
    IF is_index /\ ~(symbol # <<>> /\ Head(symbol) = "^")
    THEN <<"^">> \o symbol
    ELSE symbol

\* fetch_from_api line 412; symbol is the symbol as listed
BatchApiSymbol(symbol, normalized, is_index) ==
    IF is_index /\ ~(symbol # <<>> /\ Head(symbol) = "^")
    THEN <<"^">> \o normalized
    ELSE normalized

---------------------------------------------------------------------------
(* IntradayFetchResult *)

Result(symbol, interval, data, cached, ttl_remaining, triggered, error) ==
    [symbol |-> symbol, interval |-> interval, data |-> data, cached |-> cached,
     ttl_remaining |-> ttl_remaining,
     background_refresh_triggered |-> triggered, error |-> error]

NoResult == Result(<<>>, <<>>, <<>>, FALSE, NoneInt, FALSE, NoError)

\* mutant: truthiness instead of `is not None` (`if cached_data:`)
IsCacheHitTruthy(cached_data) == cached_data.some /\ cached_data.v # <<>>

\* `cached_data is not None`  (_get_intraday line 248)
IsCacheHit(cached_data) == cached_data.some

\* `ttl_remaining > 0` on None is a TypeError  (_get_intraday line 251)
ClampRaises(t) == ~t.some

\* `max(0, ttl_remaining) if ttl_remaining > 0 else None`
ClampTtl(t) ==
    IF t.v > 0 THEN SomeInt(IF t.v > 0 THEN t.v ELSE 0) ELSE NoneInt

\* mutant: the hit returns what the backend holds when the call returns
HitResultFromCache(call) ==
    Result(NormalizedSymbol(call.req.symbol), call.req.interval,
           cache[KeyOf(call.req)].data, TRUE, call.ttl_remaining,
           call.needs_refresh, NoError)

\* mutant: the flag is left at its initial value
HitResultUntriggered(call) ==
    Result(NormalizedSymbol(call.req.symbol), call.req.interval,
           call.cached_data.v, TRUE, call.ttl_remaining, FALSE, NoError)

\* _get_intraday lines 260-267
HitResult(call) ==
    Result(NormalizedSymbol(call.req.symbol), call.req.interval,
           call.cached_data.v, TRUE, call.ttl_remaining, call.needs_refresh,
           NoError)

\* mutant: a fetch that returned nothing is reported as a failed fetch
MissResultEmptyIsError(call, ttl) ==
    Result(NormalizedSymbol(call.req.symbol), call.req.interval,
           call.data, FALSE, IF call.data = <<>> THEN NoneInt ELSE SomeInt(ttl),
           FALSE, IF call.data = <<>> THEN "no data" ELSE NoError)

\* _get_intraday lines 276-283
MissResult(call, ttl) ==
    Result(NormalizedSymbol(call.req.symbol), call.req.interval,
           call.data, FALSE, SomeInt(ttl), FALSE, NoError)

\* mutant: the error result carries the fetched data
ErrorResultKeepsData(call, message) ==
    Result(NormalizedSymbol(call.req.symbol), call.req.interval,
           call.data, FALSE, NoneInt, FALSE, message)

\* _get_intraday lines 285-295; message is str(e)
ErrorResult(call, message) ==
    Result(NormalizedSymbol(call.req.symbol), call.req.interval,
           <<>>, FALSE, NoneInt, FALSE, message)

---------------------------------------------------------------------------
(* State *)

IdleCall ==
    [pc |-> "idle", req |-> Req(FALSE, <<>>), cached_data |-> NoneData,
     needs_refresh |-> FALSE, ttl_remaining |-> NoneInt, data |-> <<>>,
     api_symbol |-> <<>>, started |-> 0, fetches |-> 0, during |-> {},
     exc |-> NoError,
     result |-> NoResult]

\* api_symbol is the symbol of the upstream request the coroutine has sent;
\* started is a history field, the place of that request in the order in which
\* the process sent its upstream requests (0: none sent, or the order is not
\* recorded: only SpecOrder records it)
NoTask == [pc |-> "none", data |-> <<>>, api_symbol |-> <<>>, started |-> 0]

\* no get_batch_* call is made: the gate is as __new__ built it
NoBatches ==
    /\ max_concurrent_fetches = MaxConcurrentFetches
    /\ semaphore = max_concurrent_fetches
    /\ batch_workload = <<>>
    /\ batches = <<>>

MainCfg == [ttl |-> HardTTL, num |-> SoftNum, den |-> SoftDen]

\* the service has been obtained once: __new__ has made the instance
Constructed == instance = [made |-> TRUE, news |-> 1]

\* what the backend can hold when the process starts: nothing, or a payload
\* stored by an earlier process with some of its TTL left
StoredEntries(ttl) == {Absent} \cup { Entry(<<0>>, t) : t \in 1..ttl }

Init ==
    /\ workload \in Workloads
    /\ cfg = MainCfg
    /\ cache \in [KeysOf(workload) -> StoredEntries(HardTTL)]
    /\ refresh_locks = [k \in {} |-> FALSE]
    /\ calls = [c \in Calls |-> IdleCall]
    /\ tasks = [c \in Calls |-> NoTask]
    /\ NoBatches
    /\ builds = <<>>
    /\ Constructed

---------------------------------------------------------------------------
(* The refresh-lock registry *)

\* mutant: a new lock object is stored on every call
GetRefreshLockAlwaysNew(locks, key) ==
    [k \in DOMAIN locks \cup {key} |-> IF k = key THEN FALSE ELSE locks[k]]

\* _get_refresh_lock: the lock of a key is created on first use
GetRefreshLock(locks, key) ==
    IF key \in DOMAIN locks THEN locks
    ELSE [k \in DOMAIN locks \cup {key} |-> IF k = key THEN FALSE ELSE locks[k]]

\* mutant: the test is inverted (`if not lock.locked(): return`)
LockLockedInverted(locks, key) == ~locks[key]

\* mutant: one lock for all keys, held when any key is being refreshed
LockLockedAny(locks, key) == \E k \in DOMAIN locks : locks[k]

\* lock.locked()  (_background_refresh line 143)
LockLocked(locks, key) == locks[key]

\* mutant: the lock is marked as held only after the next suspension
LockAcquireLate(locks, key) == locks

\* `async with lock`: acquiring a free asyncio.Lock does not suspend
LockAcquire(locks, key) == [locks EXCEPT ![key] = TRUE]

\* mutant: the lock is not released on the way out
LockReleaseNever(locks, key) == locks

\* leaving `async with lock`, normally or by an exception
LockRelease(locks, key) == [locks EXCEPT ![key] = FALSE]

---------------------------------------------------------------------------
(* _get_intraday, one action per stretch between two awaits *)

Key(c) == KeyOf(calls[c].req)

\* the places already taken in the order of the upstream requests of the
\* single calls and their refresh tasks
Started ==
    { calls[c].started : c \in Calls } \cup { tasks[c].started : c \in Calls }

\* the place of the upstream request that is sent now
NextStart == 1 + CHOOSE m \in Started \cup {0} : \A n \in Started : n <= m

\* asyncio.create_task (lines 256-258, 399-401) puts the new task's first
\* step on the event loop's FIFO ready queue: it runs before the completion
\* of any I/O that has not been polled yet, so before any other step here
NoTaskCreated ==
    /\ \A c \in Calls : tasks[c].pc # "created"
    /\ \A b \in DOMAIN batches : \A i \in DOMAIN batches[b].slots :
          batches[b].slots[i].task.pc # "created"

\* the calls start in the order of their numbers
InProgress(c) == calls[c].pc \notin {"idle", "done", "raised"}

\* the calls that are running when another one starts (kept for the record)
Running == { d \in Calls : InProgress(d) }

MayStart(c) ==
    /\ NoTaskCreated
    /\ calls[c].pc = "idle"
    /\ IF c = 1 THEN TRUE ELSE calls[c - 1].pc # "idle"

\* lines 226-244: the key is built and get_with_swr answers
Lookup(c) ==
    /\ MayStart(c)
    /\ LET r == workload[c]
           got == GetWithSWR(cache[KeyOf(r)], GetTtl, GetSoftTtlRatio)
       IN  calls' = [calls EXCEPT ![c] =
                          [@ EXCEPT !.pc = "lookup", !.req = r,
                                    !.during = Running,
                                    !.cached_data = got.data,
                                    !.needs_refresh = got.needs_refresh]]
    /\ UNCHANGED <<instance, builds, batch_vars, workload, cfg, cache,
                   refresh_locks, tasks>>

\* lines 240-244: get_with_swr raises a backend error; nothing catches it
LookupRaises(c) ==
    /\ MayStart(c)
    /\ calls' = [calls EXCEPT ![c] =
                      [@ EXCEPT !.pc = "raised", !.req = workload[c],
                                !.during = Running,
                                !.exc = "get_with_swr BackendError"]]
    /\ UNCHANGED <<instance, builds, batch_vars, workload, cfg, cache,
                   refresh_locks, tasks>>

\* lines 248-251: on a hit cache.ttl answers and the answer is clamped
TtlRead(c) ==
    /\ NoTaskCreated
    /\ calls[c].pc = "lookup"
    /\ IsCacheHit(calls[c].cached_data)
    /\ \E t \in BackendTtl(cache[Key(c)]) :
         calls' = [calls EXCEPT ![c] =
                      IF ClampRaises(t)
                      THEN [@ EXCEPT !.pc = "raised", !.exc = "TypeError"]
                      ELSE [@ EXCEPT !.pc = "ttl",
                                     !.ttl_remaining = ClampTtl(t)]]
    /\ UNCHANGED <<instance, builds, batch_vars, workload, cfg, cache,
                   refresh_locks, tasks>>

\* line 250: cache.ttl raises a backend error; nothing catches it
TtlRaises(c) ==
    /\ NoTaskCreated
    /\ calls[c].pc = "lookup"
    /\ IsCacheHit(calls[c].cached_data)
    /\ calls' = [calls EXCEPT ![c] =
                    [@ EXCEPT !.pc = "raised", !.exc = "ttl BackendError"]]
    /\ UNCHANGED <<instance, builds, batch_vars, workload, cfg, cache,
                   refresh_locks, tasks>>

\* lines 253-267: a stale hit creates the detached refresh task; the hit returns
\* a hit that starts a refresh task whether or not the entry is stale
HitReturnAlwaysRefreshes(c) ==
    /\ NoTaskCreated
    /\ calls[c].pc = "ttl"
    /\ calls' = [calls EXCEPT ![c] =
                    [@ EXCEPT !.pc = "done", !.result = HitResult(calls[c])]]
    /\ tasks' = [tasks EXCEPT ![c] = [@ EXCEPT !.pc = "created"]]
    /\ UNCHANGED <<instance, builds, batch_vars, workload, cfg, cache,
                   refresh_locks>>

HitReturn(c) ==
    /\ NoTaskCreated
    /\ calls[c].pc = "ttl"
    /\ calls' = [calls EXCEPT ![c] =
                    [@ EXCEPT !.pc = "done", !.result = HitResult(calls[c])]]
    /\ tasks' = IF calls[c].needs_refresh
                THEN [tasks EXCEPT ![c] = [@ EXCEPT !.pc = "created"]]
                ELSE tasks
    /\ UNCHANGED <<instance, builds, batch_vars, workload, cfg, cache,
                   refresh_locks>>

\* lines 269-271: on a miss the upstream request is sent
FetchStartAs(c, place) ==
    /\ NoTaskCreated
    /\ calls[c].pc = "lookup"
    /\ ~IsCacheHit(calls[c].cached_data)
    /\ calls' = [calls EXCEPT ![c] =
                    [@ EXCEPT !.pc = "fetch", !.fetches = @ + 1,
                              !.started = place,
                              !.api_symbol =
                                  ApiSymbol(
                                      NormalizedSymbol(calls[c].req.symbol),
                                      calls[c].req.is_index)]]
    /\ UNCHANGED <<instance, builds, batch_vars, workload, cfg, cache,
                   refresh_locks, tasks>>

FetchStart(c) == FetchStartAs(c, 0)

\* mutant: no try block around the fetch, the upstream error propagates
FetchDoneUncaught(c) ==
    /\ NoTaskCreated
    /\ calls[c].pc = "fetch"
    /\ \E outcome \in UpstreamOutcomes :
         calls' = [calls EXCEPT ![c] =
                      IF outcome = "fail"
                      THEN [@ EXCEPT !.pc = "raised", !.exc = "FetchError"]
                      ELSE [@ EXCEPT !.pc = "set",
                                     !.data = FetchedData(outcome, c)]]
    /\ UNCHANGED <<instance, builds, batch_vars, workload, cfg, cache,
                   refresh_locks, tasks>>

\* lines 271-274 and 285-295: the upstream answers; on success cache.set is
\* sent, on failure the error result is returned
FetchDone(c) ==
    /\ NoTaskCreated
    /\ calls[c].pc = "fetch"
    /\ \E outcome \in UpstreamOutcomes :
         calls' = [calls EXCEPT ![c] =
                      IF outcome = "fail"
                      THEN [@ EXCEPT !.pc = "done",
                                     !.result = ErrorResult(calls[c], "FetchError")]
                      ELSE [@ EXCEPT !.pc = "set",
                                     !.data = FetchedData(outcome, c)]]
    /\ UNCHANGED <<instance, builds, batch_vars, workload, cfg, cache,
                   refresh_locks, tasks>>

\* mutant: the payload is stored with the soft TTL instead of the hard TTL
SetDoneSoftTtl(c) ==
    /\ NoTaskCreated
    /\ calls[c].pc = "set"
    /\ cache' = BackendSet(cache, Key(c), calls[c].data,
                           (GetTtl * GetSoftTtlRatio.num) \div GetSoftTtlRatio.den)
    /\ calls' = [calls EXCEPT ![c] =
                    [@ EXCEPT !.pc = "done",
                              !.result = MissResult(calls[c], GetTtl)]]
    /\ UNCHANGED <<instance, builds, batch_vars, workload, cfg,
                   refresh_locks, tasks>>

\* lines 274-283: the backend stores the payload and the miss returns
SetDone(c) ==
    /\ NoTaskCreated
    /\ calls[c].pc = "set"
    /\ cache' = BackendSet(cache, Key(c), calls[c].data, GetTtl)
    /\ calls' = [calls EXCEPT ![c] =
                    [@ EXCEPT !.pc = "done",
                              !.result = MissResult(calls[c], GetTtl)]]
    /\ UNCHANGED <<instance, builds, batch_vars, workload, cfg,
                   refresh_locks, tasks>>

\* lines 274 and 285-295: cache.set raises inside the try block
SetRaises(c) ==
    /\ NoTaskCreated
    /\ calls[c].pc = "set"
    /\ calls' = [calls EXCEPT ![c] =
                    [@ EXCEPT !.pc = "done",
                              !.result = ErrorResult(calls[c], "BackendError")]]
    /\ UNCHANGED <<instance, builds, batch_vars, workload, cfg, cache,
                   refresh_locks, tasks>>

---------------------------------------------------------------------------
(* _background_refresh, the task created by call c *)

\* mutant: no except clause, the exception ends the task unhandled
AfterRefreshErrorUncaught(task) == [task EXCEPT !.pc = "raised"]

\* an exception inside the try block is logged and the task ends (lines
\* 158-159); "failed" is a task that ended this way, "done" one that stored
AfterRefreshError(task) == [task EXCEPT !.pc = "failed"]

\* lines 140-150: the lock is looked up; a held lock ends the task, a free
\* one is acquired at once and the upstream request is sent
RefreshStartAs(c, place) ==
    /\ tasks[c].pc = "created"
    /\ LET locks == GetRefreshLock(refresh_locks, Key(c))
       IN  IF LockLocked(locks, Key(c))
           THEN /\ tasks' = [tasks EXCEPT ![c] = [@ EXCEPT !.pc = "skipped"]]
                /\ refresh_locks' = locks
           ELSE /\ tasks' = [tasks EXCEPT ![c] =
                     [@ EXCEPT !.pc = "fetch",
                               !.started = place,
                               !.api_symbol =
                                   ApiSymbol(
                                       NormalizedSymbol(calls[c].req.symbol),
                                       calls[c].req.is_index)]]
                /\ refresh_locks' = LockAcquire(locks, Key(c))
    /\ UNCHANGED <<instance, builds, batch_vars, workload, cfg, cache, calls>>

RefreshStart(c) == RefreshStartAs(c, 0)

\* mutant: the except clause sits outside `async with lock` and returns
\* without releasing it
RefreshFetchDoneKeepsLock(c) ==
    /\ NoTaskCreated
    /\ tasks[c].pc = "fetch"
    /\ \E outcome \in UpstreamOutcomes :
         IF outcome = "fail"
         THEN tasks' = [tasks EXCEPT ![c] = AfterRefreshError(tasks[c])]
         ELSE tasks' = [tasks EXCEPT ![c] =
                           [@ EXCEPT !.pc = "set",
                                     !.data = FetchedData(outcome, c)]]
    /\ UNCHANGED <<instance, builds, batch_vars, workload, cfg, cache, calls,
                   refresh_locks>>

\* mutant: `async with lock` covers the fetch only, cache.set is sent after
\* the lock has been released
RefreshFetchDoneReleasesEarly(c) ==
    /\ NoTaskCreated
    /\ tasks[c].pc = "fetch"
    /\ \E outcome \in UpstreamOutcomes :
         IF outcome = "fail"
         THEN tasks' = [tasks EXCEPT ![c] = AfterRefreshError(tasks[c])]
         ELSE tasks' = [tasks EXCEPT ![c] =
                           [@ EXCEPT !.pc = "set",
                                     !.data = FetchedData(outcome, c)]]
    /\ refresh_locks' = LockRelease(refresh_locks, Key(c))
    /\ UNCHANGED <<instance, builds, batch_vars, workload, cfg, cache, calls>>

\* lines 150-155 and 158-159: the upstream answers; on success cache.set is
\* sent, on failure the exception is logged and the lock released
RefreshFetchDone(c) ==
    /\ NoTaskCreated
    /\ tasks[c].pc = "fetch"
    /\ \E outcome \in UpstreamOutcomes :
         IF outcome = "fail"
         THEN /\ tasks' = [tasks EXCEPT ![c] = AfterRefreshError(tasks[c])]
              /\ refresh_locks' = LockRelease(refresh_locks, Key(c))
         ELSE /\ tasks' = [tasks EXCEPT ![c] =
                              [@ EXCEPT !.pc = "set",
                                        !.data = FetchedData(outcome, c)]]
              /\ refresh_locks' = refresh_locks
    /\ UNCHANGED <<instance, builds, batch_vars, workload, cfg, cache, calls>>

\* mutant: the refresh keeps the expiry of the entry it replaces
RefreshSetDoneKeepsTtl(c) ==
    /\ NoTaskCreated
    /\ tasks[c].pc = "set"
    /\ cache' = BackendSet(cache, Key(c), tasks[c].data, cache[Key(c)].ttl)
    /\ tasks' = [tasks EXCEPT ![c] = [@ EXCEPT !.pc = "done"]]
    /\ refresh_locks' = LockRelease(refresh_locks, Key(c))
    /\ UNCHANGED <<instance, builds, batch_vars, workload, cfg, calls>>

\* lines 155-156: the backend stores the payload; the lock is released
RefreshSetDone(c) ==
    /\ NoTaskCreated
    /\ tasks[c].pc = "set"
    /\ cache' = BackendSet(cache, Key(c), tasks[c].data, GetTtl)
    /\ tasks' = [tasks EXCEPT ![c] = [@ EXCEPT !.pc = "done"]]
    /\ refresh_locks' = LockRelease(refresh_locks, Key(c))
    /\ UNCHANGED <<instance, builds, batch_vars, workload, cfg, calls>>

\* lines 155 and 158-159: cache.set raises; logged, the lock released
RefreshSetRaises(c) ==
    /\ NoTaskCreated
    /\ tasks[c].pc = "set"
    /\ tasks' = [tasks EXCEPT ![c] = AfterRefreshError(tasks[c])]
    /\ refresh_locks' = LockRelease(refresh_locks, Key(c))
    /\ UNCHANGED <<instance, builds, batch_vars, workload, cfg, cache, calls>>

---------------------------------------------------------------------------
(* Time *)

Tick ==
    /\ NoTaskCreated
    /\ cache' = Expire(cache)
    /\ cache' # cache
    /\ UNCHANGED <<instance, builds, batch_vars, workload, cfg,
                   refresh_locks, calls, tasks>>

---------------------------------------------------------------------------

Next ==
    \/ \E c \in Calls : Lookup(c)
    \/ \E c \in Calls : LookupRaises(c)
    \/ \E c \in Calls : TtlRead(c)
    \/ \E c \in Calls : TtlRaises(c)
    \/ \E c \in Calls : HitReturn(c)
    \/ \E c \in Calls : FetchStart(c)
    \/ \E c \in Calls : FetchDone(c)
    \/ \E c \in Calls : SetDone(c)
    \/ \E c \in Calls : SetRaises(c)
    \/ \E c \in Calls : RefreshStart(c)
    \/ \E c \in Calls : RefreshFetchDone(c)
    \/ \E c \in Calls : RefreshSetDone(c)
    \/ \E c \in Calls : RefreshSetRaises(c)
    \/ Tick

Spec == Init /\ [][Next]_vars

---------------------------------------------------------------------------
(* _get_batch: the requests                                                *)

\* bound: the largest value configured for _max_concurrent_fetches
MaxLimit == 2

BatchReq(is_index, symbols) ==
    [is_index |-> is_index, symbols |-> symbols, interval |-> OneMin,
     from_date |-> NoneStr, to_date |-> NoneStr]

\* lines 374-381: symbol -> (normalized_symbol, cache_key)
SymbolInfo(req, symbol) ==
    [normalized |-> NormalizedSymbol(symbol),
     cache_key |-> CacheKey(req.is_index, symbol, req.interval,
                            req.from_date, req.to_date)]

\* What the batch callers ask for, fixed when the run starts: a batch of two
\* stocks and then a batch of one of them under another spelling, or one
\* batch that lists one index twice under two spellings.
DistinctSymbolsWorkload ==
    << BatchReq(FALSE, << <<"a">>, <<"b">> >>),
       BatchReq(FALSE, << <<"B">> >>) >>

RepeatedSymbolWorkload ==
    << BatchReq(TRUE, << <<"a">>, <<"^", "A">> >>) >>

BatchWorkloads == { DistinctSymbolsWorkload, RepeatedSymbolWorkload }

BatchKeysOf(w) ==
    UNION { { SymbolInfo(w[b], w[b].symbols[i]).cache_key :
                i \in DOMAIN w[b].symbols } : b \in DOMAIN w }

---------------------------------------------------------------------------
(* _get_batch: state                                                       *)

\* client is the FMPClient of Phase 2 ("none" until one is made, then "open"
\* and "closed"), clients the number of FMPClient objects the batch has made

\* a dict as a function; d[k] = v
DictSet(d, k, v) == [x \in DOMAIN d \cup {k} |-> IF x = k THEN v ELSE d[x]]

EmptyDict == [x \in {} |-> <<>>]

NoStats ==
    [total_requests |-> 0, cache_hits |-> 0, cache_misses |-> 0,
     background_refreshes |-> 0]

\* one listed symbol: pc is the position of its check_cache and then of its
\* fetch_from_api coroutine, data what the upstream answered, task the
\* detached task it created (_background_refresh after a stale hit,
\* cache.set after a fetch)
NewSlot == [pc |-> "new", data |-> <<>>, api_symbol |-> <<>>, task |-> NoTask]

\* lines 364-371
IdleBatch(req) ==
    [pc |-> "idle", req |-> req, results |-> EmptyDict, errors |-> EmptyDict,
     cache_hits |-> 0, background_refreshes |-> 0,
     cache_misses_symbols |-> <<>>,
     slots |-> [i \in DOMAIN req.symbols |-> NewSlot],
     client |-> "none", clients |-> 0,
     exc |-> NoError, stats |-> NoStats]

\* what the backend can hold when the process starts: nothing, or a payload
\* stored by an earlier process that is in its last second
BatchStoredEntries == { Absent, Entry(<<0>>, 1) }

InitBatch ==
    /\ workload = SameKeyWorkload
    /\ cfg = MainCfg
    /\ batch_workload \in BatchWorkloads
    /\ cache \in [BatchKeysOf(batch_workload) -> BatchStoredEntries]
    /\ refresh_locks = [k \in {} |-> FALSE]
    /\ calls = [c \in Calls |-> IdleCall]
    /\ tasks = [c \in Calls |-> NoTask]
    /\ max_concurrent_fetches \in 1..MaxLimit
    /\ semaphore = max_concurrent_fetches
    /\ batches = [b \in DOMAIN batch_workload |-> IdleBatch(batch_workload[b])]
    /\ builds = <<>>
    /\ Constructed

Batches == DOMAIN batches

Slots(b) == DOMAIN batches[b].slots

Symbol(b, i) == batches[b].req.symbols[i]

Info(b, i) == SymbolInfo(batches[b].req, Symbol(b, i))

\* the data point the upstream answers to the request sent for slot i of
\* batch b (by fetch_from_api or by the slot's refresh task)
SlotPayload(b, i) == 10 * b + i

SlotsAt(b, pcs) == { i \in Slots(b) : batches[b].slots[i].pc \in pcs }

---------------------------------------------------------------------------
(* asyncio.Semaphore                                                       *)

\* mutant: the gate never reports that it is exhausted
SemaphoreLockedNever(value) == FALSE

\* Semaphore.locked(): no permit is left
SemaphoreLocked(value) == value = 0

---------------------------------------------------------------------------
(* `async with FMPClient() as client` of Phase 2                           *)

\* line 409, entering the block: a client is made and opened
ClientEnter(batch) == [batch EXCEPT !.client = "open", !.clients = @ + 1]

\* mutant: the client is made without `async with` and never closed
ClientExitLeak(batch) == batch

\* leaving the block after the gather of line 430
ClientExit(batch) == [batch EXCEPT !.client = "closed"]

---------------------------------------------------------------------------
(* _get_batch, one action per stretch between two awaits *)

\* lines 364-405: the locals are set and gather starts one check_cache per
\* listed symbol, each of which sends its get_with_swr
BatchStart(b) ==
    /\ NoTaskCreated
    /\ batches[b].pc = "idle"
    /\ IF b = 1 THEN TRUE ELSE batches[b - 1].pc # "idle"
    /\ batches' = [batches EXCEPT ![b] =
                      [@ EXCEPT !.pc = "phase1",
                                !.slots = [i \in Slots(b) |->
                                              [NewSlot EXCEPT !.pc = "lookup"]]]]
    /\ UNCHANGED <<instance, builds, workload, cfg, cache, refresh_locks,
                   calls, tasks,
                   max_concurrent_fetches, semaphore, batch_workload>>

\* lines 388-403: get_with_swr answers for one symbol; a hit goes into
\* results and, when stale, creates the detached refresh task; a miss is
\* appended to cache_misses_symbols
CheckCache(b, i) ==
    /\ NoTaskCreated
    /\ batches[b].slots[i].pc = "lookup"
    /\ LET got == GetWithSWR(cache[Info(b, i).cache_key], GetTtl,
                             GetSoftTtlRatio)
       IN  batches' = [batches EXCEPT ![b] =
             IF IsCacheHit(got.data)
             THEN [@ EXCEPT
                     !.results = DictSet(@, Info(b, i).normalized, got.data.v),
                     !.cache_hits = @ + 1,
                     !.background_refreshes =
                         IF got.needs_refresh THEN @ + 1 ELSE @,
                     !.slots[i].pc = "hit",
                     !.slots[i].task.pc =
                         IF got.needs_refresh THEN "created" ELSE "none"]
             ELSE [@ EXCEPT
                     !.cache_misses_symbols = Append(@, Symbol(b, i)),
                     !.slots[i].pc = "miss"]]
    /\ UNCHANGED <<instance, builds, workload, cfg, cache, refresh_locks,
                   calls, tasks,
                   max_concurrent_fetches, semaphore, batch_workload>>

\* lines 390-392 and 405: get_with_swr raises a backend error; nothing
\* catches it, gather hands it to _get_batch, the sibling lookups go on
CheckCacheRaises(b, i) ==
    /\ NoTaskCreated
    /\ batches[b].slots[i].pc = "lookup"
    /\ batches' = [batches EXCEPT ![b] =
                      [@ EXCEPT !.slots[i].pc = "raised",
                                !.pc = IF @ = "phase1" THEN "raised" ELSE @,
                                !.exc = "get_with_swr BackendError"]]
    /\ UNCHANGED <<instance, builds, workload, cfg, cache, refresh_locks,
                   calls, tasks,
                   max_concurrent_fetches, semaphore, batch_workload>>

\* mutant: the total is counted from the keys of the two maps
CacheStatsFromMaps(batch) ==
    [total_requests |->
         Cardinality(DOMAIN batch.results \cup DOMAIN batch.errors),
     cache_hits |-> batch.cache_hits,
     cache_misses |-> Len(batch.cache_misses_symbols),
     background_refreshes |-> batch.background_refreshes]

\* lines 432-437
CacheStats(batch) ==
    [total_requests |-> Len(batch.req.symbols),
     cache_hits |-> batch.cache_hits,
     cache_misses |-> Len(batch.cache_misses_symbols),
     background_refreshes |-> batch.background_refreshes]

\* mutant: the fetches are started as soon as one lookup has missed
Phase1DoneEager(b) ==
    /\ NoTaskCreated
    /\ batches[b].pc = "phase1"
    /\ SlotsAt(b, {"miss"}) # {}
    /\ batches' = [batches EXCEPT ![b] =
          ClientEnter(
          [@ EXCEPT !.pc = "phase2",
                    !.slots = [i \in Slots(b) |->
                        IF batches[b].slots[i].pc = "miss"
                        THEN [batches[b].slots[i] EXCEPT !.pc = "wait"]
                        ELSE batches[b].slots[i]]])]
    /\ UNCHANGED <<instance, builds, workload, cfg, cache, refresh_locks,
                   calls, tasks,
                   max_concurrent_fetches, semaphore, batch_workload>>

\* lines 405-439: every lookup has answered; without a miss the batch
\* returns, otherwise the client is opened and gather starts one
\* fetch_from_api per miss, each of which goes to the semaphore
Phase1Done(b) ==
    /\ NoTaskCreated
    /\ batches[b].pc = "phase1"
    /\ SlotsAt(b, {"hit", "miss"}) = Slots(b)
    /\ batches' = [batches EXCEPT ![b] =
          IF batches[b].cache_misses_symbols = <<>>
          THEN [@ EXCEPT !.pc = "returned", !.stats = CacheStats(batches[b])]
          ELSE ClientEnter(
               [@ EXCEPT !.pc = "phase2",
                         !.slots = [i \in Slots(b) |->
                             IF batches[b].slots[i].pc = "miss"
                             THEN [batches[b].slots[i] EXCEPT !.pc = "wait"]
                             ELSE batches[b].slots[i]]])]
    /\ UNCHANGED <<instance, builds, workload, cfg, cache, refresh_locks,
                   calls, tasks,
                   max_concurrent_fetches, semaphore, batch_workload>>

\* lines 414-421: a permit is taken and the upstream request is sent
SemaphoreAcquire(b, i) ==
    /\ NoTaskCreated
    /\ batches[b].slots[i].pc = "wait"
    /\ ~SemaphoreLocked(semaphore)
    /\ semaphore' = semaphore - 1
    /\ batches' = [batches EXCEPT
                      ![b].slots[i].pc = "fetch",
                      ![b].slots[i].api_symbol =
                          BatchApiSymbol(Symbol(b, i), Info(b, i).normalized,
                                         batches[b].req.is_index)]
    /\ UNCHANGED <<instance, builds, workload, cfg, cache, refresh_locks,
                   calls, tasks,
                   max_concurrent_fetches, batch_workload>>

\* mutant: no except clause, the upstream error ends the whole batch
FetchFailedAborts(batch, i, normalized, message) ==
    [batch EXCEPT !.pc = "raised", !.exc = message, !.slots[i].pc = "error"]

\* lines 426-428: the error is logged and recorded under the canonical name
FetchFailed(batch, i, normalized, message) ==
    [batch EXCEPT !.errors = DictSet(@, normalized, message),
                  !.slots[i].pc = "error"]

\* mutant: the cache write is awaited inside the gate
BatchFetchDoneAwaitsSet(b, i) ==
    /\ NoTaskCreated
    /\ batches[b].slots[i].pc = "fetch"
    /\ semaphore' = semaphore + 1
    /\ \E outcome \in UpstreamOutcomes :
         IF outcome = "fail"
         THEN /\ batches' = [batches EXCEPT ![b] =
                    FetchFailed(@, i, Info(b, i).normalized, "FetchError")]
              /\ cache' = cache
         ELSE LET data == FetchedData(outcome, SlotPayload(b, i))
              IN  /\ batches' = [batches EXCEPT ![b] =
                        [@ EXCEPT !.results =
                                      DictSet(@, Info(b, i).normalized, data),
                                  !.slots[i].pc = "fetched",
                                  !.slots[i].data = data,
                                  !.slots[i].task.pc = "done"]]
                  /\ cache' = BackendSet(cache, Info(b, i).cache_key, data,
                                         GetTtl)
    /\ UNCHANGED <<instance, builds, workload, cfg, refresh_locks, calls, tasks,
                   max_concurrent_fetches, batch_workload>>

\* lines 416-428: the upstream answers; a payload goes into results and the
\* detached cache.set task is created, an error goes into errors; the
\* permit is given back
BatchFetchDone(b, i) ==
    /\ NoTaskCreated
    /\ batches[b].slots[i].pc = "fetch"
    /\ semaphore' = semaphore + 1
    /\ \E outcome \in UpstreamOutcomes :
         batches' = [batches EXCEPT ![b] =
            IF outcome = "fail"
            THEN FetchFailed(@, i, Info(b, i).normalized, "FetchError")
            ELSE LET data == FetchedData(outcome, SlotPayload(b, i))
                 IN  [@ EXCEPT !.results =
                                   DictSet(@, Info(b, i).normalized, data),
                               !.slots[i].pc = "fetched",
                               !.slots[i].data = data,
                               !.slots[i].task.pc = "created"]]
    /\ UNCHANGED <<instance, builds, workload, cfg, cache, refresh_locks,
                   calls, tasks,
                   max_concurrent_fetches, batch_workload>>

\* line 425: the detached task sends cache.set
WriteStart(b, i) ==
    /\ batches[b].slots[i].pc = "fetched"
    /\ batches[b].slots[i].task.pc = "created"
    /\ batches' = [batches EXCEPT ![b].slots[i].task.pc = "pending"]
    /\ UNCHANGED <<instance, builds, workload, cfg, cache, refresh_locks,
                   calls, tasks,
                   max_concurrent_fetches, semaphore, batch_workload>>

\* line 425: the backend stores the payload
WriteDone(b, i) ==
    /\ NoTaskCreated
    /\ batches[b].slots[i].pc = "fetched"
    /\ batches[b].slots[i].task.pc = "pending"
    /\ cache' = BackendSet(cache, Info(b, i).cache_key,
                           batches[b].slots[i].data, GetTtl)
    /\ batches' = [batches EXCEPT ![b].slots[i].task.pc = "done"]
    /\ UNCHANGED <<instance, builds, workload, cfg, refresh_locks, calls, tasks,
                   max_concurrent_fetches, semaphore, batch_workload>>

\* line 425: cache.set raises in the detached task; nobody retrieves it
WriteRaises(b, i) ==
    /\ NoTaskCreated
    /\ batches[b].slots[i].pc = "fetched"
    /\ batches[b].slots[i].task.pc = "pending"
    /\ batches' = [batches EXCEPT ![b].slots[i].task.pc = "failed"]
    /\ UNCHANGED <<instance, builds, workload, cfg, cache, refresh_locks,
                   calls, tasks,
                   max_concurrent_fetches, semaphore, batch_workload>>

\* lines 430-439: every fetch_from_api has ended; the client is closed and
\* the batch returns
BatchReturn(b) ==
    /\ NoTaskCreated
    /\ batches[b].pc = "phase2"
    /\ SlotsAt(b, {"hit", "fetched", "error"}) = Slots(b)
    /\ batches' = [batches EXCEPT ![b] =
                      ClientExit([@ EXCEPT !.pc = "returned",
                                           !.stats = CacheStats(batches[b])])]
    /\ UNCHANGED <<instance, builds, workload, cfg, cache, refresh_locks,
                   calls, tasks,
                   max_concurrent_fetches, semaphore, batch_workload>>

---------------------------------------------------------------------------
(* _background_refresh, the task created by check_cache for slot i of      *)
(* batch b                                                                 *)

\* lines 140-150
BatchRefreshStart(b, i) ==
    /\ batches[b].slots[i].pc = "hit"
    /\ batches[b].slots[i].task.pc = "created"
    /\ LET key == Info(b, i).cache_key
           locks == GetRefreshLock(refresh_locks, key)
       IN  IF LockLocked(locks, key)
           THEN /\ batches' = [batches EXCEPT ![b].slots[i].task.pc = "skipped"]
                /\ refresh_locks' = locks
           ELSE /\ batches' = [batches EXCEPT
                                  ![b].slots[i].task.pc = "fetch",
                                  ![b].slots[i].task.api_symbol =
                                      ApiSymbol(Info(b, i).normalized,
                                                batches[b].req.is_index)]
                /\ refresh_locks' = LockAcquire(locks, key)
    /\ UNCHANGED <<instance, builds, workload, cfg, cache, calls, tasks,
                   max_concurrent_fetches, semaphore, batch_workload>>

\* lines 150-155 and 158-159
BatchRefreshFetchDone(b, i) ==
    /\ NoTaskCreated
    /\ batches[b].slots[i].pc = "hit"
    /\ batches[b].slots[i].task.pc = "fetch"
    /\ \E outcome \in UpstreamOutcomes :
         IF outcome = "fail"
         THEN /\ batches' = [batches EXCEPT ![b].slots[i].task =
                                 AfterRefreshError(@)]
              /\ refresh_locks' =
                     LockRelease(refresh_locks, Info(b, i).cache_key)
         ELSE /\ batches' = [batches EXCEPT ![b].slots[i].task =
                                 [@ EXCEPT !.pc = "set",
                                           !.data = FetchedData(outcome,
                                                        SlotPayload(b, i))]]
              /\ refresh_locks' = refresh_locks
    /\ UNCHANGED <<instance, builds, workload, cfg, cache, calls, tasks,
                   max_concurrent_fetches, semaphore, batch_workload>>

\* lines 155-156
BatchRefreshSetDone(b, i) ==
    /\ NoTaskCreated
    /\ batches[b].slots[i].pc = "hit"
    /\ batches[b].slots[i].task.pc = "set"
    /\ cache' = BackendSet(cache, Info(b, i).cache_key,
                           batches[b].slots[i].task.data, GetTtl)
    /\ batches' = [batches EXCEPT ![b].slots[i].task.pc = "done"]
    /\ refresh_locks' = LockRelease(refresh_locks, Info(b, i).cache_key)
    /\ UNCHANGED <<instance, builds, workload, cfg, calls, tasks,
                   max_concurrent_fetches, semaphore, batch_workload>>

\* lines 155 and 158-159
BatchRefreshSetRaises(b, i) ==
    /\ NoTaskCreated
    /\ batches[b].slots[i].pc = "hit"
    /\ batches[b].slots[i].task.pc = "set"
    /\ batches' = [batches EXCEPT ![b].slots[i].task = AfterRefreshError(@)]
    /\ refresh_locks' = LockRelease(refresh_locks, Info(b, i).cache_key)
    /\ UNCHANGED <<instance, builds, workload, cfg, cache, calls, tasks,
                   max_concurrent_fetches, semaphore, batch_workload>>

---------------------------------------------------------------------------

NextBatch ==
    \/ \E b \in Batches : BatchStart(b)
    \/ \E b \in Batches : \E i \in Slots(b) : CheckCache(b, i)
    \/ \E b \in Batches : \E i \in Slots(b) : CheckCacheRaises(b, i)
    \/ \E b \in Batches : Phase1Done(b)
    \/ \E b \in Batches : \E i \in Slots(b) : SemaphoreAcquire(b, i)
    \/ \E b \in Batches : \E i \in Slots(b) : BatchFetchDone(b, i)
    \/ \E b \in Batches : \E i \in Slots(b) : WriteStart(b, i)
    \/ \E b \in Batches : \E i \in Slots(b) : WriteDone(b, i)
    \/ \E b \in Batches : \E i \in Slots(b) : WriteRaises(b, i)
    \/ \E b \in Batches : BatchReturn(b)
    \/ \E b \in Batches : \E i \in Slots(b) : BatchRefreshStart(b, i)
    \/ \E b \in Batches : \E i \in Slots(b) : BatchRefreshFetchDone(b, i)
    \/ \E b \in Batches : \E i \in Slots(b) : BatchRefreshSetDone(b, i)
    \/ \E b \in Batches : \E i \in Slots(b) : BatchRefreshSetRaises(b, i)
    \/ Tick

SpecBatch == InitBatch /\ [][NextBatch]_vars

---------------------------------------------------------------------------
(* IntradayCacheService.__new__ / get_instance                             *)

\* bound: how often the service is obtained
MaxNews == 2

\* before the first __new__: the class has no instance
NotConstructed == instance = [made |-> FALSE, news |-> 0]

\* mutant: every __new__ makes the registry and the gate anew
ServiceNewAlways(made, locks, sem) ==
    [locks |-> [k \in {} |-> FALSE], sem |-> max_concurrent_fetches]

\* lines 77-82: the registry and the gate are made when there is no
\* instance yet, otherwise the instance is returned as it is
ServiceNew(made, locks, sem) ==
    IF ~made
    THEN [locks |-> [k \in {} |-> FALSE], sem |-> max_concurrent_fetches]
    ELSE [locks |-> locks, sem |-> sem]

\* get_instance() / IntradayCacheService(): a synchronous call, made at any
\* moment between two steps of the running coroutines
GetInstance ==
    /\ NoTaskCreated
    /\ instance.news < MaxNews
    /\ LET made == ServiceNew(instance.made, refresh_locks, semaphore)
       IN  /\ refresh_locks' = made.locks
           /\ semaphore' = made.sem
    /\ instance' = [made |-> TRUE, news |-> instance.news + 1]
    /\ UNCHANGED <<builds, workload, cfg, cache, calls, tasks,
                   max_concurrent_fetches, batch_workload, batches>>

---------------------------------------------------------------------------
(* Both entry points at once: one single call and one batch that share a   *)
(* key                                                                     *)

\* the single calls that are made next to the batch
MixedCalls == { 1 }

MixedBatchWorkload == << BatchReq(FALSE, << <<"A">>, <<"b">> >>) >>

InitMixed ==
    /\ workload = SameKeyWorkload
    /\ cfg = MainCfg
    /\ batch_workload = MixedBatchWorkload
    /\ cache \in [KeysOf(workload) \cup BatchKeysOf(batch_workload)
                     -> BatchStoredEntries]
    /\ refresh_locks = [k \in {} |-> FALSE]
    /\ calls = [c \in Calls |-> IdleCall]
    /\ tasks = [c \in Calls |-> NoTask]
    /\ max_concurrent_fetches = MaxConcurrentFetches
    /\ semaphore = max_concurrent_fetches
    /\ batches = [b \in DOMAIN batch_workload |-> IdleBatch(batch_workload[b])]
    /\ builds = <<>>
    /\ Constructed

NextMixed ==
    \/ \E c \in MixedCalls : Lookup(c)
    \/ \E c \in MixedCalls : LookupRaises(c)
    \/ \E c \in MixedCalls : TtlRead(c)
    \/ \E c \in MixedCalls : TtlRaises(c)
    \/ \E c \in MixedCalls : HitReturn(c)
    \/ \E c \in MixedCalls : FetchStart(c)
    \/ \E c \in MixedCalls : FetchDone(c)
    \/ \E c \in MixedCalls : SetDone(c)
    \/ \E c \in MixedCalls : SetRaises(c)
    \/ \E c \in MixedCalls : RefreshStart(c)
    \/ \E c \in MixedCalls : RefreshFetchDone(c)
    \/ \E c \in MixedCalls : RefreshSetDone(c)
    \/ \E c \in MixedCalls : RefreshSetRaises(c)
    \/ \E b \in Batches : BatchStart(b)
    \/ \E b \in Batches : \E i \in Slots(b) : CheckCache(b, i)
    \/ \E b \in Batches : \E i \in Slots(b) : CheckCacheRaises(b, i)
    \/ \E b \in Batches : Phase1Done(b)
    \/ \E b \in Batches : \E i \in Slots(b) : SemaphoreAcquire(b, i)
    \/ \E b \in Batches : \E i \in Slots(b) : BatchFetchDone(b, i)
    \/ \E b \in Batches : \E i \in Slots(b) : WriteStart(b, i)
    \/ \E b \in Batches : \E i \in Slots(b) : WriteDone(b, i)
    \/ \E b \in Batches : \E i \in Slots(b) : WriteRaises(b, i)
    \/ \E b \in Batches : BatchReturn(b)
    \/ \E b \in Batches : \E i \in Slots(b) : BatchRefreshStart(b, i)
    \/ \E b \in Batches : \E i \in Slots(b) : BatchRefreshFetchDone(b, i)
    \/ \E b \in Batches : \E i \in Slots(b) : BatchRefreshSetDone(b, i)
    \/ \E b \in Batches : \E i \in Slots(b) : BatchRefreshSetRaises(b, i)
    \/ Tick

SpecMixed == InitMixed /\ [][NextMixed]_vars

(* The same call and batch over a backend whose entries may be of any age,
   fresh ones included. *)
InitFresh ==
    /\ workload = SameKeyWorkload
    /\ cfg = MainCfg
    /\ batch_workload = MixedBatchWorkload
    /\ cache \in [KeysOf(workload) \cup BatchKeysOf(batch_workload)
                     -> StoredEntries(HardTTL)]
    /\ refresh_locks = [k \in {} |-> FALSE]
    /\ calls = [c \in Calls |-> IdleCall]
    /\ tasks = [c \in Calls |-> NoTask]
    /\ max_concurrent_fetches = MaxConcurrentFetches
    /\ semaphore = max_concurrent_fetches
    /\ batches = [b \in DOMAIN batch_workload |-> IdleBatch(batch_workload[b])]
    /\ builds = <<>>
    /\ Constructed

SpecFresh == InitFresh /\ [][NextMixed]_vars

---------------------------------------------------------------------------
(* The same calls, from a process that has not made the service yet and    *)
(* obtains it again while they run                                         *)

InitRegistry ==
    /\ workload = SameKeyWorkload
    /\ cfg = MainCfg
    /\ batch_workload = MixedBatchWorkload
    /\ cache \in [KeysOf(workload) \cup BatchKeysOf(batch_workload)
                     -> BatchStoredEntries]
    /\ refresh_locks = [k \in {} |-> FALSE]
    /\ calls = [c \in Calls |-> IdleCall]
    /\ tasks = [c \in Calls |-> NoTask]
    /\ max_concurrent_fetches = MaxConcurrentFetches
    /\ semaphore = max_concurrent_fetches
    /\ batches = [b \in DOMAIN batch_workload |-> IdleBatch(batch_workload[b])]
    /\ builds = <<>>
    /\ NotConstructed

\* the methods are called on an instance, so after the first __new__
NextRegistry ==
    \/ GetInstance
    \/ (instance.made /\ NextMixed)

SpecRegistry == InitRegistry /\ [][NextRegistry]_vars

---------------------------------------------------------------------------
(* The single calls with the progress the I/O layer gives: every upstream  *)
(* request is answered or times out, every cache.set is answered           *)

\* the answer, or the timeout, of the upstream request of a refresh
UpstreamAnswers(c) == RefreshFetchDone(c)

\* the answer of the backend to the cache.set of a refresh
BackendAnswers(c) == RefreshSetDone(c) \/ RefreshSetRaises(c)

InitLive ==
    /\ workload = SameKeyWorkload
    /\ cfg = MainCfg
    /\ cache \in [KeysOf(workload) -> BatchStoredEntries]
    /\ refresh_locks = [k \in {} |-> FALSE]
    /\ calls = [c \in Calls |-> IdleCall]
    /\ tasks = [c \in Calls |-> NoTask]
    /\ NoBatches
    /\ builds = <<>>
    /\ Constructed

\* the single calls that are made: two calls for one key
LiveCalls == { 1, 2 }

NextLive ==
    \/ \E c \in LiveCalls : Lookup(c)
    \/ \E c \in LiveCalls : LookupRaises(c)
    \/ \E c \in LiveCalls : TtlRead(c)
    \/ \E c \in LiveCalls : TtlRaises(c)
    \/ \E c \in LiveCalls : HitReturn(c)
    \/ \E c \in LiveCalls : FetchStart(c)
    \/ \E c \in LiveCalls : FetchDone(c)
    \/ \E c \in LiveCalls : SetDone(c)
    \/ \E c \in LiveCalls : SetRaises(c)
    \/ \E c \in LiveCalls : RefreshStart(c)
    \/ \E c \in LiveCalls : RefreshFetchDone(c)
    \/ \E c \in LiveCalls : RefreshSetDone(c)
    \/ \E c \in LiveCalls : RefreshSetRaises(c)
    \/ Tick

SpecLive ==
    /\ InitLive
    /\ [][NextLive]_vars
    /\ \A c \in LiveCalls : WF_vars(RefreshStart(c))
    /\ \A c \in LiveCalls : WF_vars(UpstreamAnswers(c))
    /\ \A c \in LiveCalls : WF_vars(BackendAnswers(c))

(* The same two calls of one key with the order of the upstream requests
   recorded: each request takes the next place when it is sent. *)
NextOrder ==
    \/ \E c \in LiveCalls : Lookup(c)
    \/ \E c \in LiveCalls : LookupRaises(c)
    \/ \E c \in LiveCalls : TtlRead(c)
    \/ \E c \in LiveCalls : TtlRaises(c)
    \/ \E c \in LiveCalls : HitReturn(c)
    \/ \E c \in LiveCalls : FetchStartAs(c, NextStart)
    \/ \E c \in LiveCalls : FetchDone(c)
    \/ \E c \in LiveCalls : SetDone(c)
    \/ \E c \in LiveCalls : SetRaises(c)
    \/ \E c \in LiveCalls : RefreshStartAs(c, NextStart)
    \/ \E c \in LiveCalls : RefreshFetchDone(c)
    \/ \E c \in LiveCalls : RefreshSetDone(c)
    \/ \E c \in LiveCalls : RefreshSetRaises(c)
    \/ Tick

SpecOrder == InitLive /\ [][NextOrder]_vars

---------------------------------------------------------------------------
(* The two entry points one at a time: a process that serves single calls  *)
(* for a stock and an index, or one that serves batches                    *)

InitSymbols ==
    \/ /\ workload = TwoKeyWorkload
       /\ cfg = MainCfg
       /\ cache \in [KeysOf(workload) -> StoredEntries(HardTTL)]
       /\ refresh_locks = [k \in {} |-> FALSE]
       /\ calls = [c \in Calls |-> IdleCall]
       /\ tasks = [c \in Calls |-> NoTask]
       /\ NoBatches
       /\ builds = <<>>
       /\ Constructed
    \/ InitBatch

NextSymbols ==
    \/ (batches = <<>> /\ NextLive)
    \/ (batches # <<>> /\ NextBatch)

SpecSymbols == InitSymbols /\ [][NextSymbols]_vars

---------------------------------------------------------------------------
(* The key builder on its own: two invocations with arguments drawn from   *)
(* every kind, spelling, interval and date bound                           *)

FiveMin == <<"5", "m", "i", "n">>

KeySymbols ==
    { <<"a">>, <<"A">>, <<"^", "a">>, <<"^", "A">>, <<"^", "^", "a">>,
      <<"b">> }

KeyIntervals == { OneMin, FiveMin }

\* None, the empty string, a date, and a string that spells a date, the
\* delimiter and a second bound
KeyFromDates ==
    { NoneStr, SomeStr(<<>>), SomeStr(<<"1">>),
      SomeStr(<<"1", ":", "to", "=", "2">>) }

KeyToDates == { NoneStr, SomeStr(<<"1">>), SomeStr(<<"2">>) }

KeyArgs ==
    [is_index : BOOLEAN, symbol : KeySymbols, interval : KeyIntervals,
     from_date : KeyFromDates, to_date : KeyToDates]

NotBuilt(args) ==
    [args |-> args, built |-> FALSE, key |-> <<>>, normalized |-> <<>>]

InitKeys ==
    /\ workload = SameKeyWorkload
    /\ cfg = MainCfg
    /\ cache = [k \in {} |-> Absent]
    /\ refresh_locks = [k \in {} |-> FALSE]
    /\ calls = [c \in Calls |-> IdleCall]
    /\ tasks = [c \in Calls |-> NoTask]
    /\ NoBatches
    /\ \E a \in [{1, 2} -> KeyArgs] : builds = [n \in {1, 2} |-> NotBuilt(a[n])]
    /\ Constructed

\* the invocations are made one after the other
MayBuild(n) ==
    /\ ~builds[n].built
    /\ IF n = 1 THEN TRUE ELSE builds[n - 1].built

\* lines 229-233 with is_index false: stock_key and the downstream symbol
BuildStockKey(n) ==
    /\ MayBuild(n)
    /\ ~builds[n].args.is_index
    /\ LET a == builds[n].args
       IN  builds' = [builds EXCEPT ![n] =
               [@ EXCEPT !.built = TRUE,
                         !.key = stock_key(a.symbol, a.interval, a.from_date,
                                           a.to_date),
                         !.normalized = NormalizedSymbol(a.symbol)]]
    /\ UNCHANGED <<instance, workload, cfg, cache, refresh_locks, calls, tasks,
                   batch_vars>>

\* lines 227-233 with is_index true: index_key and the downstream symbol
BuildIndexKey(n) ==
    /\ MayBuild(n)
    /\ builds[n].args.is_index
    /\ LET a == builds[n].args
       IN  builds' = [builds EXCEPT ![n] =
               [@ EXCEPT !.built = TRUE,
                         !.key = index_key(a.symbol, a.interval, a.from_date,
                                           a.to_date),
                         !.normalized = NormalizedSymbol(a.symbol)]]
    /\ UNCHANGED <<instance, workload, cfg, cache, refresh_locks, calls, tasks,
                   batch_vars>>

NextKeys ==
    \/ \E n \in DOMAIN builds : BuildStockKey(n)
    \/ \E n \in DOMAIN builds : BuildIndexKey(n)

SpecKeys == InitKeys /\ [][NextKeys]_vars

---------------------------------------------------------------------------
(* Vocabulary of the properties *)

\* the refresh tasks that hold the handle of key k
Refreshing(k) ==
    { c \in Calls : tasks[c].pc \in {"fetch", "set"} /\ Key(c) = k }

\* the refresh tasks of key k that have sent an upstream request
Dispatched(k) ==
    { c \in Calls : tasks[c].pc \in {"fetch", "set", "done", "failed"}
                    /\ Key(c) = k }

\* the refresh task of call c has ended
Settled(c) == tasks[c].pc \in {"done", "failed", "skipped"}

\* the lookup of call c answered with a payload that needs a refresh
ObservedStale(c) ==
    /\ calls[c].pc \notin {"idle"}
    /\ calls[c].cached_data.some
    /\ calls[c].needs_refresh

\* the two calls were running at the same time
Overlap(c, d) == c \in calls[d].during \/ d \in calls[c].during

\* two returned calls for one key that overlapped and both saw a stale hit
StalePair(c, d) ==
    /\ c # d
    /\ Key(c) = Key(d)
    /\ ObservedStale(c) /\ ObservedStale(d)
    /\ Overlap(c, d)
    /\ calls[c].pc = "done" /\ calls[d].pc = "done"

\* the calls with a foreground (cache-miss) upstream request in flight for k
ColdFetching(k) == { c \in Calls : calls[c].pc = "fetch" /\ Key(c) = k }

---------------------------------------------------------------------------
(* C1 *)

\* C1: in every reachable state and for every cache key at most one
\* background refresh holds the key's handle (is between acquiring and
\* releasing it), however many calls have launched refreshes for the key.
C1_AtMostOneRefreshPerKey ==
    \A k \in DOMAIN cache : Cardinality(Refreshing(k)) <= 1

\* a refresh is in flight while another refresh of the same key was dropped
C1_Witness ==
    \E c, d \in Calls :
        /\ c # d /\ Key(c) = Key(d)
        /\ tasks[c].pc \in {"fetch", "set"}
        /\ tasks[d].pc = "skipped"

---------------------------------------------------------------------------
(* C2 *)

\* C2 as stated: two overlapping stale hits of one key lead to exactly one
\* upstream request of the refresh coordinator for the key in total, and
\* both results report background_refresh_triggered.
C2_ExactlyOneFetch ==
    \A c, d \in Calls :
        (StalePair(c, d) /\ Settled(c) /\ Settled(d)) =>
            /\ Cardinality(Dispatched(Key(c))) = 1
            /\ calls[c].result.background_refresh_triggered
            /\ calls[d].result.background_refresh_triggered

\* C2 as amended: two overlapping stale hits of one key both report
\* background_refresh_triggered and each launches a refresh task; the two
\* tasks never hold the handle at the same time; once both tasks have ended
\* at least one upstream request was sent for the key (the pair sends one
\* or two: two when the later task starts after the handle was released).
C2_OneOrTwoFetches ==
    \A c, d \in Calls :
        StalePair(c, d) =>
            /\ calls[c].result.background_refresh_triggered
            /\ calls[d].result.background_refresh_triggered
            /\ tasks[c].pc # "none" /\ tasks[d].pc # "none"
            /\ ~(c \in Refreshing(Key(c)) /\ d \in Refreshing(Key(c)))
            /\ (Settled(c) /\ Settled(d)) => Dispatched(Key(c)) # {}

\* both refresh tasks of an overlapping stale pair sent an upstream request
C2_Witness ==
    \E c, d \in Calls :
        /\ StalePair(c, d)
        /\ Settled(c) /\ Settled(d)
        /\ {c, d} \subseteq Dispatched(Key(c))

---------------------------------------------------------------------------
(* C3 *)

\* C3 as stated: at most one foreground (cache-miss) upstream request per
\* key is in flight at any instant.
C3_NoTwoColdFetches ==
    \A k \in DOMAIN cache : Cardinality(ColdFetching(k)) <= 1

\* C3 as amended: cold fetches are not deduplicated; a foreground upstream
\* request in flight belongs to a running call whose lookup returned no
\* payload and is the only request that call has sent, so for every key the
\* number in flight is at most the number of running calls that missed on
\* it.
C3_OneColdFetchPerMissingCall ==
    /\ \A c \in Calls :
          calls[c].pc = "fetch" =>
              ~calls[c].cached_data.some /\ calls[c].fetches = 1
    /\ \A k \in DOMAIN cache :
          Cardinality(ColdFetching(k)) <=
              Cardinality({ c \in Calls : /\ InProgress(c)
                                          /\ Key(c) = k
                                          /\ ~calls[c].cached_data.some })

\* two calls have a cold fetch for the same key in flight at once
C3_Witness ==
    \E c, d \in Calls :
        c # d /\ Key(c) = Key(d) /\ {c, d} \subseteq ColdFetching(Key(c))

---------------------------------------------------------------------------
(* C4 *)

FreshHitOutcome(r) ==
    r.cached /\ ~r.background_refresh_triggered /\ r.error = NoError

StaleHitOutcome(r) ==
    r.cached /\ r.background_refresh_triggered /\ r.error = NoError

MissFetchOutcome(r) ==
    ~r.cached /\ ~r.background_refresh_triggered /\ r.error = NoError

MissErrorOutcome(r) ==
    /\ ~r.cached /\ ~r.background_refresh_triggered
    /\ r.error # NoError /\ r.data = <<>>

OutcomesOf(r) ==
    { o \in {"fresh", "stale", "fetched", "error"} :
        \/ o = "fresh" /\ FreshHitOutcome(r)
        \/ o = "stale" /\ StaleHitOutcome(r)
        \/ o = "fetched" /\ MissFetchOutcome(r)
        \/ o = "error" /\ MissErrorOutcome(r) }

\* C4: a call that returns has exactly one of the four outcomes (fresh hit,
\* stale hit with refresh, miss with fetch, miss with error) and has sent at
\* most one upstream request itself, none when it returns a hit.
C4_OneOutcomeOneFetch ==
    \A c \in Calls :
        calls[c].pc = "done" =>
            /\ Cardinality(OutcomesOf(calls[c].result)) = 1
            /\ calls[c].fetches <= 1
            /\ calls[c].result.cached => calls[c].fetches = 0
            /\ (calls[c].result.cached <=> calls[c].cached_data.some)
            /\ (calls[c].result.background_refresh_triggered =>
                    tasks[c].pc # "none")

\* one call has returned a stale hit and another a miss with error after
\* its fetch
C4_Witness ==
    \E c, d \in Calls :
        /\ calls[c].pc = "done" /\ OutcomesOf(calls[c].result) = {"stale"}
        /\ calls[d].pc = "done" /\ OutcomesOf(calls[d].result) = {"error"}
        /\ calls[d].fetches = 1

---------------------------------------------------------------------------
(* The freshness decision on its own: any configuration, any stored entry, *)
(* no writes and no clock                                                  *)

\* largest hard TTL and remaining TTL enumerated below the default
MaxSwrTtl == 3

SwrTtls == (1..MaxSwrTtl) \cup {DefaultTTL}

SwrRatios == { <<0, 1>>, <<1, 4>>, <<SoftNum, SoftDen>>, <<3, 4>>, <<1, 1>> }

SwrConfigs ==
    { [ttl |-> t, num |-> r[1], den |-> r[2]] : t \in SwrTtls, r \in SwrRatios }

SwrRemaining(ttl) ==
    { r \in (0..MaxSwrTtl) \cup
            { DefaultTTL \div 2 - 1, DefaultTTL \div 2, DefaultTTL \div 2 + 1,
              DefaultTTL } : r <= ttl }

SwrEntries(ttl) ==
    {Absent} \cup { Entry(d, r) : d \in {<<>>, <<0>>}, r \in SwrRemaining(ttl) }

InitSWR ==
    /\ workload = SameKeyWorkload
    /\ cfg \in SwrConfigs
    /\ cache \in [KeysOf(workload) -> SwrEntries(cfg.ttl)]
    /\ refresh_locks = [k \in {} |-> FALSE]
    /\ calls = [c \in Calls |-> IdleCall]
    /\ tasks = [c \in Calls |-> NoTask]
    /\ NoBatches
    /\ builds = <<>>
    /\ Constructed

NextSWR ==
    \/ \E c \in Calls : Lookup(c)
    \/ \E c \in Calls : TtlRead(c)
    \/ \E c \in Calls : FetchStart(c)

SpecSWR == InitSWR /\ [][NextSWR]_vars

---------------------------------------------------------------------------
(* C5 *)

\* C5: for every key, hard TTL and soft ratio the lookup answers
\* (none, false) when the entry is absent or has no TTL left, and otherwise
\* the payload with needs_refresh exactly when remaining_ttl <=
\* original_ttl * soft_ttl_ratio; needs_refresh never comes without a
\* payload; the call takes the hit path exactly when a payload came back.
C5_SwrThreshold ==
    \A c \in Calls :
        calls[c].pc # "idle" =>
            LET e == cache[Key(c)]
                gone == ~e.present \/ e.ttl = 0
            IN  /\ gone => /\ calls[c].cached_data = NoneData
                           /\ ~calls[c].needs_refresh
                           /\ calls[c].pc \in {"lookup", "fetch"}
                /\ ~gone => /\ calls[c].cached_data = SomeData(e.data)
                            /\ calls[c].needs_refresh <=>
                                   (e.ttl * cfg.den <= cfg.ttl * cfg.num)
                            /\ calls[c].pc \in {"lookup", "ttl"}
                /\ calls[c].needs_refresh => calls[c].cached_data.some

\* with 60 and 0.5 a call has taken the hit path on an entry with 30 left
\* and was told to refresh
C5_Witness ==
    /\ cfg = [ttl |-> DefaultTTL, num |-> SoftNum, den |-> SoftDen]
    /\ \E c \in Calls :
          /\ calls[c].pc = "ttl"
          /\ cache[Key(c)].ttl = DefaultTTL \div 2
          /\ calls[c].needs_refresh

---------------------------------------------------------------------------
(* C6 *)

\* the step in which call c comes back from cache.set and returns
StoreReturns(c) == calls[c].pc = "set" /\ calls'[c].pc = "done"

\* the step in which call c gets its lookup answer for an entry that has its
\* whole hard TTL left (stored with no time elapsed since)
LooksUpJustStored(c) ==
    /\ calls[c].pc = "idle" /\ calls'[c].pc = "lookup"
    /\ cache[KeyOf(calls'[c].req)].present
    /\ cache[KeyOf(calls'[c].req)].ttl = GetTtl

SecondCallHits(c) ==
    LooksUpJustStored(c) =>
        /\ calls'[c].cached_data = SomeData(cache[KeyOf(calls'[c].req)].data)
        /\ IsCacheHit(calls'[c].cached_data)

HitServesCachedPayload ==
    \A c \in Calls :
        (calls[c].pc = "done" /\ calls[c].cached_data.some) =>
            /\ calls[c].result.cached
            /\ calls[c].result.data = calls[c].cached_data.v
            /\ calls[c].fetches = 0

---------------------------------------------------------------------------
(* C7 *)

\* the step in which the upstream request of call c ends in an error
FetchFails(c) == calls[c].pc = "fetch" /\ calls'[c].pc \notin {"fetch", "set"}

\* C7: when the upstream fetch of a miss fails the call returns normally
\* with error set, empty data, cached = false, no ttl_remaining and
\* background_refresh_triggered = false, and the backend is left unchanged.
C7_FetchErrorReported ==
    [][\A c \in Calls :
          FetchFails(c) =>
              /\ calls'[c].pc = "done"
              /\ calls'[c].result.error # NoError
              /\ calls'[c].result.data = <<>>
              /\ ~calls'[c].result.cached
              /\ calls'[c].result.ttl_remaining = NoneInt
              /\ ~calls'[c].result.background_refresh_triggered
              /\ cache' = cache
              /\ tasks' = tasks]_vars

\* a call has returned the error of its failed fetch
C7_Witness ==
    \E c \in Calls :
        /\ calls[c].pc = "done"
        /\ calls[c].result.error = "FetchError"
        /\ calls[c].fetches = 1

---------------------------------------------------------------------------
(* C8 *)

\* C8: a backend error raised by the freshness lookup is treated as a miss;
\* no exception leaves the call.
C8_LookupErrorIsMiss ==
    \A c \in Calls :
        ~(calls[c].pc = "raised" /\ calls[c].exc = "get_with_swr BackendError")

---------------------------------------------------------------------------
(* C9 *)

\* the step in which the refresh task of call c ends after it took the handle
RefreshEnds(c) ==
    tasks[c].pc \in {"fetch", "set"} /\ tasks'[c].pc \notin {"fetch", "set"}

\* C9: a background refresh whose fetch or store fails changes no caller's
\* result and raises nothing: the task ends with the failure swallowed, the
\* key's handle released, and the cached entry untouched when the fetch
\* failed.
C9_RefreshFailureSwallowed ==
    [][\A c \in Calls :
          RefreshEnds(c) =>
              /\ tasks'[c].pc \in {"done", "failed"}
              /\ ~refresh_locks'[Key(c)]
              /\ calls' = calls
              /\ tasks[c].pc = "fetch" =>
                    tasks'[c].pc = "failed" /\ cache' = cache
              /\ tasks'[c].pc = "failed" => cache' = cache]_vars

\* a refresh has failed: its call keeps the hit it returned, the handle is
\* free and the entry it was to replace is still stored
C9_Witness ==
    \E c \in Calls :
        /\ tasks[c].pc = "failed"
        /\ ~refresh_locks[Key(c)]
        /\ calls[c].pc = "done" /\ OutcomesOf(calls[c].result) = {"stale"}
        /\ cache[Key(c)] = Entry(calls[c].result.data, 1)

---------------------------------------------------------------------------
(* C10 *)

\* C10: every hit returns with ttl_remaining either the backend's positive
\* remaining TTL or none; a TTL read of none, zero or a negative value gives
\* none and the call still returns the hit.
C10_TtlClamped ==
    \A c \in Calls :
        /\ ~(calls[c].pc = "raised" /\ calls[c].exc = "TypeError")
        /\ (calls[c].pc = "done" /\ calls[c].result.cached) =>
              \/ calls[c].result.ttl_remaining = NoneInt
              \/ /\ calls[c].result.ttl_remaining.some
                 /\ calls[c].result.ttl_remaining.v > 0

---------------------------------------------------------------------------
(* C11 *)

\* the step in which call c returns its stale hit
StaleHitReturns(c) ==
    calls[c].pc = "ttl" /\ calls[c].needs_refresh /\ calls'[c].pc = "done"

\* C11: a stale hit returns the payload read at lookup without waiting for
\* the refresh it launches: in the step that returns it the refresh task is
\* only created (it has not started), the backend and the handles are
\* untouched; the result never changes afterwards, whatever the refresh
\* does; the returned data is the lookup's payload and never the payload
\* the call's own refresh fetches.
C11_StaleHitDoesNotWait ==
    /\ [][\A c \in Calls :
            /\ StaleHitReturns(c) =>
                  /\ tasks[c].pc = "none" /\ tasks'[c].pc = "created"
                  /\ calls'[c].result.data = calls[c].cached_data.v
                  /\ calls'[c].result.background_refresh_triggered
                  /\ cache' = cache /\ refresh_locks' = refresh_locks
            /\ calls[c].pc = "done" => calls'[c] = calls[c]]_vars
    /\ [](\A c \in Calls :
            (calls[c].pc = "done" /\ calls[c].result.cached) =>
                /\ calls[c].result.data = calls[c].cached_data.v
                /\ calls[c].result.data # FetchedData("ok", c))

\* the refresh launched by a stale hit has stored its new payload while the
\* call's result still carries the payload read at lookup
C11_Witness ==
    \E c \in Calls :
        /\ calls[c].pc = "done" /\ OutcomesOf(calls[c].result) = {"stale"}
        /\ tasks[c].pc = "done"
        /\ cache[Key(c)].data = FetchedData("ok", c)
        /\ calls[c].result.data = <<0>>

---------------------------------------------------------------------------
(* Vocabulary of the batch properties *)

AllSlots == UNION { { <<b, i>> : i \in Slots(b) } : b \in Batches }

\* the Phase-2 upstream requests in flight, over every batch
FetchesInFlight == { s \in AllSlots : batches[s[1]].slots[s[2]].pc = "fetch" }

\* the slots of batch b whose detached refresh has an upstream request in
\* flight
RefreshesInFlight(b) ==
    { i \in Slots(b) : /\ batches[b].slots[i].pc = "hit"
                       /\ batches[b].slots[i].task.pc = "fetch" }

Returned(b) == batches[b].pc = "returned"

Normalized(b, i) == Info(b, i).normalized

---------------------------------------------------------------------------
(* C12 *)

\* C12: at every instant the number of Phase-2 upstream requests in flight,
\* summed over every running batch, is at most the configured limit; the
\* permits left and the requests in flight always add up to the limit.
C12_BoundedFetches ==
    /\ Cardinality(FetchesInFlight) <= max_concurrent_fetches
    /\ semaphore = max_concurrent_fetches - Cardinality(FetchesInFlight)
    /\ semaphore >= 0

\* the gate is exhausted by fetches of two different batches while another
\* miss waits for a permit
C12_Witness ==
    /\ Cardinality(FetchesInFlight) = max_concurrent_fetches
    /\ \E s, t \in FetchesInFlight : s[1] # t[1]
    /\ \E b \in Batches : SlotsAt(b, {"wait"}) # {}

---------------------------------------------------------------------------
(* C13 *)

\* C13: the upstream requests in flight that one batch has caused, its
\* Phase-2 fetches together with the refreshes launched for its Phase-1
\* stale hits, never exceed the configured limit.
C13_BatchWithinLimit ==
    \A b \in Batches :
        Cardinality(SlotsAt(b, {"fetch"})) + Cardinality(RefreshesInFlight(b))
            <= max_concurrent_fetches

---------------------------------------------------------------------------
(* C14 *)

\* C14: when a batch returns, cache_hits + cache_misses = total_requests =
\* the number of listed symbols, repeated symbols counted as often as they
\* are listed.
C14_StatsAddUp ==
    \A b \in Batches :
        Returned(b) =>
            /\ batches[b].stats.total_requests = Len(batches[b].req.symbols)
            /\ batches[b].stats.cache_hits + batches[b].stats.cache_misses
                   = batches[b].stats.total_requests
            /\ batches[b].stats.cache_hits
                   = Cardinality(SlotsAt(b, {"hit"}))
            /\ batches[b].stats.cache_misses
                   = Cardinality(SlotsAt(b, {"fetched", "error"}))

\* a batch that lists one entity twice has returned with one hit and one
\* miss
C14_Witness ==
    \E b \in Batches :
        /\ Returned(b)
        /\ \E i, j \in Slots(b) : i # j /\ Normalized(b, i) = Normalized(b, j)
        /\ batches[b].stats.cache_hits = 1
        /\ batches[b].stats.cache_misses = 1

---------------------------------------------------------------------------
(* C15 *)

\* C15: when a batch returns, the canonical name of every listed symbol is
\* a key of exactly one of results and errors, and of results when the
\* symbol's lookup hit.
C15_ExactlyOneMap ==
    \A b \in Batches :
        Returned(b) =>
            \A i \in Slots(b) :
                /\ (Normalized(b, i) \in DOMAIN batches[b].results)
                       # (Normalized(b, i) \in DOMAIN batches[b].errors)
                /\ batches[b].slots[i].pc = "hit" =>
                       Normalized(b, i) \in DOMAIN batches[b].results

---------------------------------------------------------------------------
(* C16 *)

\* the step in which the upstream request of slot i of batch b fails
BatchFetchFails(b, i) ==
    batches[b].slots[i].pc = "fetch" /\ batches'[b].slots[i].pc = "error"

\* C16: a failing Phase-2 fetch does not abort or alter a sibling: the step
\* records the error under the symbol's canonical name, gives the permit
\* back and leaves the batch running, its results, the other slots and the
\* backend as they were; a returned batch has seen every miss fetched to
\* the end, holds for every fetched symbol a payload fetched for its
\* canonical name and for every failed one its message, and no batch ends
\* by the exception of a fetch.
C16_FetchFailureIsolated ==
    /\ [][\A b \in Batches : \A i \in Slots(b) :
            BatchFetchFails(b, i) =>
                /\ batches'[b].pc = batches[b].pc
                /\ batches'[b].errors[Normalized(b, i)] = "FetchError"
                /\ batches'[b].results = batches[b].results
                /\ \A j \in Slots(b) \ {i} :
                       batches'[b].slots[j] = batches[b].slots[j]
                /\ semaphore' = semaphore + 1
                /\ cache' = cache]_vars
    /\ [](\A b \in Batches :
            /\ batches[b].pc = "raised" =>
                   batches[b].exc = "get_with_swr BackendError"
            /\ Returned(b) =>
                   \A i \in Slots(b) :
                      /\ batches[b].slots[i].pc \in {"hit", "fetched", "error"}
                      /\ batches[b].slots[i].pc = "error" =>
                             /\ Normalized(b, i) \in DOMAIN batches[b].errors
                             /\ batches[b].errors[Normalized(b, i)] = "FetchError"
                      /\ batches[b].slots[i].pc = "fetched" =>
                             /\ Normalized(b, i) \in DOMAIN batches[b].results
                             /\ \E j \in SlotsAt(b, {"fetched"}) :
                                   /\ Normalized(b, j) = Normalized(b, i)
                                   /\ batches[b].results[Normalized(b, i)]
                                          = batches[b].slots[j].data)

\* a batch has returned with one symbol in errors and a sibling of another
\* name in results with the payload fetched for it
C16_Witness ==
    \E b \in Batches : \E i, j \in Slots(b) :
        /\ Returned(b)
        /\ Normalized(b, i) # Normalized(b, j)
        /\ batches[b].slots[i].pc = "error"
        /\ Normalized(b, i) \in DOMAIN batches[b].errors
        /\ batches[b].slots[j].pc = "fetched"
        /\ batches[b].results[Normalized(b, j)]
               = FetchedData("ok", SlotPayload(b, j))

---------------------------------------------------------------------------
(* Vocabulary of the key properties *)

BothBuilt == \A n \in DOMAIN builds : builds[n].built

\* the two invocations have the same kind, interval and dates
SameButSymbol(a, b) ==
    /\ a.is_index = b.is_index
    /\ a.interval = b.interval
    /\ a.from_date = b.from_date
    /\ a.to_date = b.to_date

\* a lower-case letter with its upper-case letter
CasePairs == { <<"a", "A">>, <<"b", "B">> }

\* t is s with every lower-case letter replaced by its upper-case letter
IsUppercaseOf(t, s) ==
    /\ Len(t) = Len(s)
    /\ \A i \in 1..Len(s) :
          IF \E p \in CasePairs : p[1] = s[i]
          THEN <<s[i], t[i]>> \in CasePairs
          ELSE t[i] = s[i]

---------------------------------------------------------------------------
(* C17 *)

\* C17: key building is deterministic, case-insensitive for both kinds and
\* prefix-insensitive for the index kind: with kind, interval and dates
\* equal, the same symbol gives the same key, s and uppercase(s) give the
\* same key, and for an index "^" + s and s give the same key.
C17_KeyCaseAndPrefixInsensitive ==
    BothBuilt =>
        LET a == builds[1].args
            b == builds[2].args
        IN  SameButSymbol(a, b) =>
                /\ b.symbol = a.symbol => builds[2].key = builds[1].key
                /\ IsUppercaseOf(b.symbol, a.symbol) =>
                       builds[2].key = builds[1].key
                /\ (a.is_index /\ b.symbol = <<"^">> \o a.symbol) =>
                       builds[2].key = builds[1].key

\* the stock keys of "a" and of "A", or the index keys of "^a" and of
\* "^^a", have been built with the same interval and dates and are equal
C17_Witness ==
    /\ BothBuilt
    /\ SameButSymbol(builds[1].args, builds[2].args)
    /\ builds[1].args.from_date = SomeStr(<<"1">>)
    /\ \/ /\ ~builds[1].args.is_index
          /\ builds[1].args.symbol = <<"a">>
          /\ builds[2].args.symbol = <<"A">>
       \/ /\ builds[1].args.is_index
          /\ builds[1].args.symbol = <<"^", "a">>
          /\ builds[2].args.symbol = <<"^", "^", "a">>
    /\ builds[1].key = builds[2].key

---------------------------------------------------------------------------
(* C18 *)

\* C18: for both kinds, two requests with the same kind, interval and dates
\* whose symbols reduce to the same canonical downstream symbol get the
\* same cache key.
C18_SameEntitySameKey ==
    (/\ BothBuilt
     /\ SameButSymbol(builds[1].args, builds[2].args)
     /\ builds[1].normalized = builds[2].normalized)
        => builds[1].key = builds[2].key

---------------------------------------------------------------------------
(* C19 *)

\* the date bound of a request: an empty string is no bound, like None
DateBound(d) == IF d.some /\ d.v # <<>> THEN <<"bound", d.v>> ELSE <<"none">>

\* C19: two requests get the same key only if their kind, canonical
\* symbol, interval, from-date bound and to-date bound are all equal.
C19_KeyInjective ==
    (BothBuilt /\ builds[1].key = builds[2].key) =>
        LET a == builds[1].args
            b == builds[2].args
        IN  /\ a.is_index = b.is_index
            /\ builds[1].normalized = builds[2].normalized
            /\ a.interval = b.interval
            /\ DateBound(a.from_date) = DateBound(b.from_date)
            /\ DateBound(a.to_date) = DateBound(b.to_date)

---------------------------------------------------------------------------
(* C20 *)

\* the step in which the upstream request of slot i of batch b succeeds
BatchFetchSucceeds(b, i) ==
    batches[b].slots[i].pc = "fetch" /\ batches'[b].slots[i].pc = "fetched"

\* the step in which batch b returns
BatchReturns(b) == ~Returned(b) /\ batches'[b].pc = "returned"

\* C20: the batch does not wait for the cache writes of Phase 2: the step
\* in which a fetch succeeds puts the payload into results, only creates
\* the write as a detached task and gives the permit back without touching
\* the backend; the step in which the batch returns writes nothing and
\* moves no task; a returned batch holds the payload of every fetched
\* symbol in results whatever the state of that symbol's write.
C20_ReturnDoesNotWaitForWrites ==
    /\ [][\A b \in Batches :
            /\ \A i \in Slots(b) :
                  BatchFetchSucceeds(b, i) =>
                      /\ batches'[b].results[Normalized(b, i)]
                             = batches'[b].slots[i].data
                      /\ batches[b].slots[i].task.pc = "none"
                      /\ batches'[b].slots[i].task.pc = "created"
                      /\ semaphore' = semaphore + 1
                      /\ cache' = cache
            /\ BatchReturns(b) =>
                  /\ cache' = cache
                  /\ batches'[b].slots = batches[b].slots
                  /\ batches'[b].results = batches[b].results]_vars
    /\ [](\A b \in Batches : \A i \in Slots(b) :
            (Returned(b) /\ batches[b].slots[i].pc = "fetched") =>
                /\ Normalized(b, i) \in DOMAIN batches[b].results
                /\ batches[b].slots[i].task.pc
                       \in {"pending", "done", "failed"})

\* a batch has returned with a fetched payload in results while the write
\* of that payload is still pending and the backend does not hold it
C20_Witness ==
    \E b \in Batches : \E i \in Slots(b) :
        /\ Returned(b)
        /\ batches[b].slots[i].pc = "fetched"
        /\ batches[b].slots[i].task.pc = "pending"
        /\ batches[b].results[Normalized(b, i)]
               = FetchedData("ok", SlotPayload(b, i))
        /\ cache[Info(b, i).cache_key].data # batches[b].slots[i].data

---------------------------------------------------------------------------
(* C21 *)

\* the step in which the refresh task of call c runs its first stretch
RefreshStarts(c) == tasks[c].pc = "created" /\ tasks'[c].pc # "created"

\* the key of call c has a handle and the handle is held
HandleHeld(c) ==
    Key(c) \in DOMAIN refresh_locks /\ refresh_locks[Key(c)]

\* C21: a refresh that finds the handle of its key held is a no-op: in one
\* step it ends as skipped, with no upstream request, no cache write and
\* the handles as they were, and it stays ended (it does not queue behind
\* the holder); a refresh that finds the handle free holds it at the end of
\* the same step, so a handle is held exactly while one refresh of its key
\* is between acquiring and releasing it.
C21_HeldHandleIsNoOp ==
    /\ [][\A c \in Calls :
            /\ RefreshStarts(c) =>
                  IF HandleHeld(c)
                  THEN /\ tasks'[c] = [tasks[c] EXCEPT !.pc = "skipped"]
                       /\ refresh_locks' = refresh_locks
                       /\ cache' = cache
                       /\ calls' = calls
                  ELSE /\ tasks'[c].pc = "fetch"
                       /\ refresh_locks'[Key(c)]
                       /\ cache' = cache
            /\ tasks[c].pc = "skipped" => tasks'[c] = tasks[c]]_vars
    /\ [](\A k \in DOMAIN refresh_locks :
            refresh_locks[k] <=> Cardinality(Refreshing(k)) = 1)

\* a refresh was dropped as a duplicate and the holder has since stored its
\* payload and released the handle
C21_Witness ==
    \E c, d \in Calls :
        /\ c # d /\ Key(c) = Key(d)
        /\ tasks[c].pc = "skipped" /\ tasks[c].data = <<>>
        /\ tasks[d].pc = "done"
        /\ cache[Key(d)].data = FetchedData("ok", d)
        /\ ~refresh_locks[Key(c)]

---------------------------------------------------------------------------
(* C22 *)

\* the slots of batch b whose lookup was a stale hit (a refresh task was
\* created for them, whatever became of it)
StaleHits(b) ==
    { i \in Slots(b) : /\ batches[b].slots[i].pc = "hit"
                       /\ batches[b].slots[i].task.pc # "none" }

\* C22: background_refresh_triggered of a single result is true exactly
\* when the lookup was a hit with needs_refresh, also when the refresh was
\* afterwards dropped as a duplicate, and false on every fresh hit and
\* every miss; the batch counter background_refreshes is the number of
\* Phase-1 stale hits, whatever their refreshes did, with
\* 0 <= background_refreshes <= cache_hits <= total_requests, and the
\* returned stats carry these counters.
C22_TriggeredMeansStaleHit ==
    /\ \A c \in Calls :
          calls[c].pc = "done" =>
              /\ calls[c].result.background_refresh_triggered
                     <=> (calls[c].cached_data.some /\ calls[c].needs_refresh)
              /\ tasks[c].pc # "none"
                     <=> calls[c].result.background_refresh_triggered
    /\ \A b \in Batches :
          /\ batches[b].background_refreshes = Cardinality(StaleHits(b))
          /\ batches[b].cache_hits = Cardinality(SlotsAt(b, {"hit"}))
          /\ 0 <= batches[b].background_refreshes
          /\ batches[b].background_refreshes <= batches[b].cache_hits
          /\ batches[b].cache_hits <= Len(batches[b].req.symbols)
          /\ Returned(b) =>
                 /\ batches[b].stats.background_refreshes
                        = batches[b].background_refreshes
                 /\ batches[b].stats.cache_hits = batches[b].cache_hits
                 /\ batches[b].stats.total_requests
                        = Len(batches[b].req.symbols)

\* a single call reports a refresh that was dropped as a duplicate, and a
\* returned batch counts a stale hit whose refresh sent a request and one
\* fresh hit or miss that it does not count
C22_Witness ==
    /\ \E c \in Calls :
          /\ calls[c].pc = "done"
          /\ calls[c].result.background_refresh_triggered
          /\ tasks[c].pc = "skipped"
    /\ \E b \in Batches :
          /\ Returned(b)
          /\ batches[b].stats.background_refreshes = 1
          /\ batches[b].stats.total_requests = 2

---------------------------------------------------------------------------
(* C23 *)

\* the refresh of call c holds the handle of its key
HoldsHandle(c) == tasks[c].pc \in {"fetch", "set"}

\* C23: every refresh that acquires the handle of its key eventually ends
\* with the handle released, whether its fetch succeeds, its fetch fails
\* or its store fails; a handle is never held without a refresh that
\* holds it.
C23_HandleEventuallyReleased ==
    /\ \A c \in Calls :
          HoldsHandle(c) ~>
              (tasks[c].pc \in {"done", "failed"} /\ ~HoldsHandle(c))
    /\ \A c \in Calls :
          [](HoldsHandle(c) => <>(~HandleHeld(c)))
    /\ [](\A k \in DOMAIN refresh_locks :
            refresh_locks[k] => \E c \in Calls : HoldsHandle(c) /\ Key(c) = k)

\* one refresh has ended by a failure and another by a store, and the
\* handle of their key is free
C23_Witness ==
    \E c, d \in Calls :
        /\ Key(c) = Key(d)
        /\ tasks[c].pc = "failed"
        /\ tasks[d].pc = "done"
        /\ ~HandleHeld(c)

---------------------------------------------------------------------------
(* C24 *)

\* the step in which the refresh of call c ends by a failure
RefreshFails(c) ==
    tasks[c].pc \in {"fetch", "set"} /\ tasks'[c].pc = "failed"

\* the step in which the refresh of call c stores its payload
RefreshStores(c) == tasks[c].pc = "set" /\ tasks'[c].pc = "done"

\* the step in which call c stores the payload it fetched on a miss
CallStores(c) ==
    /\ calls[c].pc = "set" /\ calls'[c].pc = "done"
    /\ calls'[c].result.error = NoError

\* C24: a refresh that fails leaves the cache as it was and the handle of
\* its key free; the entry goes only by expiry or by a later store, and a
\* lookup made while it is there is a hit; a later refresh of the key is
\* dropped only when another refresh of the key is in flight at that
\* moment, so after a failure the next refresh that finds none sends a new
\* upstream request.
C24_FailureBlocksNothing ==
    /\ [][\A c \in Calls :
            /\ RefreshFails(c) =>
                   /\ cache' = cache
                   /\ ~refresh_locks'[Key(c)]
            /\ (RefreshStarts(c) /\ tasks'[c].pc = "skipped") =>
                   Refreshing(Key(c)) # {}
            /\ (RefreshStarts(c) /\ Refreshing(Key(c)) = {}) =>
                   /\ tasks'[c].pc = "fetch"
                   /\ Refreshing(Key(c))' = {c}
            /\ (calls[c].pc = "idle" /\ calls'[c].pc = "lookup") =>
                   LET entry == cache[KeyOf(workload[c])]
                   IN  (entry.present /\ entry.ttl > 0) =>
                           calls'[c].cached_data = SomeData(entry.data)]_vars
    /\ [][cache' # cache =>
             \/ cache' = Expire(cache)
             \/ \E c \in Calls : RefreshStores(c) \/ CallStores(c)]_vars
    /\ [](\A c \in Calls :
             (tasks[c].pc = "failed" /\ Refreshing(Key(c)) = {})
                 => ~HandleHeld(c))

\* the refresh of one call has failed, the entry is still there and the
\* refresh of a later call for the same key has sent its upstream request
C24_Witness ==
    \E c, d \in Calls :
        /\ c # d /\ Key(c) = Key(d)
        /\ tasks[c].pc = "failed"
        /\ cache[Key(c)] = Entry(<<0>>, 1)
        /\ tasks[d].pc = "fetch"
        /\ refresh_locks[Key(d)]

---------------------------------------------------------------------------
(* C25 *)

\* call d looks the key up in the state that the store of refresh c leaves
LooksUpAfterRefresh(d, c) ==
    /\ calls[d].pc = "idle" /\ calls'[d].pc = "lookup"
    /\ tasks[c].pc = "done"
    /\ KeyOf(workload[d]) = Key(c)
    /\ cache[Key(c)] = Entry(tasks[c].data, cfg.ttl)

\* C25: the store of a refresh that was launched by a stale hit and whose
\* fetch succeeded puts the payload of that fetch under the key with the
\* configured hard TTL left, whatever the entry held before; a lookup made
\* before anything else touches the entry is a hit on that payload with
\* needs_refresh false.
C25_RefreshResetsEntry ==
    [][\A c \in Calls :
         /\ RefreshStores(c) =>
                /\ ObservedStale(c)
                /\ cache'[Key(c)].present
                /\ cache'[Key(c)].data = tasks[c].data
                /\ cache'[Key(c)].ttl = cfg.ttl
                /\ \A k \in DOMAIN cache \ {Key(c)} : cache'[k] = cache[k]
         /\ \A d \in Calls :
                LooksUpAfterRefresh(d, c) =>
                    /\ calls'[d].cached_data = SomeData(tasks[c].data)
                    /\ ~calls'[d].needs_refresh]_vars

\* a call has looked the key up right after a refresh stored a new payload
\* over a stale one, and got that payload as a fresh hit
C25_Witness ==
    \E c, d \in Calls :
        /\ c # d
        /\ tasks[c].pc = "done"
        /\ tasks[c].data = FetchedData("ok", c)
        /\ calls[d].pc = "lookup"
        /\ calls[d].cached_data = SomeData(FetchedData("ok", c))
        /\ ~calls[d].needs_refresh
        /\ cache[Key(c)] = Entry(FetchedData("ok", c), cfg.ttl)

---------------------------------------------------------------------------
(* C26 *)

\* the payloads that a successful upstream fetch of refresh c can return
OwnPayloads(c) == { FetchedData(o, c) : o \in UpstreamOutcomes \ {"fail"} }

\* C26: a refresh sends cache.set only after its own upstream fetch has
\* answered with a payload, and that payload is what it stores; from then
\* until the store has been applied it holds the handle of its key alone,
\* and the handle is released only in the step that ends the store; an
\* entry whose handle is free changes only by expiry or by the store of a
\* call that missed.
C26_WriteUnderHandle ==
    /\ [](\A c \in Calls :
            tasks[c].pc = "set" =>
                /\ HandleHeld(c)
                /\ Refreshing(Key(c)) = {c}
                /\ tasks[c].data \in OwnPayloads(c))
    /\ [][\A c \in Calls :
            /\ (tasks[c].pc # "set" /\ tasks'[c].pc = "set") =>
                   /\ tasks[c].pc = "fetch"
                   /\ cache' = cache
                   /\ refresh_locks' = refresh_locks
            /\ (tasks[c].pc # "done" /\ tasks'[c].pc = "done") =>
                   /\ tasks[c].pc = "set"
                   /\ HandleHeld(c)
                   /\ cache'[Key(c)].data = tasks[c].data
                   /\ ~refresh_locks'[Key(c)]]_vars
    /\ [][\A k \in DOMAIN cache :
            (cache'[k] # cache[k]
                 /\ ~(k \in DOMAIN refresh_locks /\ refresh_locks[k])) =>
                \/ cache' = Expire(cache)
                \/ \E c \in Calls : CallStores(c) /\ Key(c) = k]_vars

\* a refresh has stored its payload over the entry it found and released
\* the handle, and a second refresh of the key is between its fetch and its
\* store
C26_Witness ==
    \E c, d \in Calls :
        /\ c # d /\ Key(c) = Key(d)
        /\ tasks[c].pc = "done"
        /\ tasks[d].pc = "set"
        /\ cache[Key(c)].data = tasks[c].data
        /\ refresh_locks[Key(d)]

---------------------------------------------------------------------------
(* C27 *)

\* the positions of a fetch_from_api coroutine
Phase2Pcs == {"wait", "fetch", "fetched", "error"}

\* the lookup of slot i of batch b has been classified
Classified(b, i) == batches[b].slots[i].pc \notin {"new", "lookup", "raised"}

\* C27: a listed symbol of a batch is in Phase 2 only when every lookup of
\* the batch has been classified and its own lookup was a miss; while any
\* lookup is open no fetch_from_api of the batch exists; a listed symbol
\* whose lookup hit stays a hit and never carries a fetched payload.
C27_PhasesInOrder ==
    /\ [](\A b \in Batches : \A i \in Slots(b) :
            /\ batches[b].slots[i].pc \in Phase2Pcs =>
                   /\ batches[b].pc \in {"phase2", "returned"}
                   /\ \A j \in Slots(b) : Classified(b, j)
                   /\ \E n \in DOMAIN batches[b].cache_misses_symbols :
                          batches[b].cache_misses_symbols[n] = Symbol(b, i)
            /\ batches[b].pc \in {"idle", "phase1", "raised"} =>
                   batches[b].slots[i].pc \notin Phase2Pcs
            /\ batches[b].slots[i].pc = "hit" =>
                   batches[b].slots[i].data = <<>>)
    /\ [][\A b \in Batches : \A i \in Slots(b) :
            /\ batches[b].slots[i].pc = "hit" =>
                   batches'[b].slots[i].pc = "hit"
            /\ (batches[b].slots[i].pc \notin Phase2Pcs
                    /\ batches'[b].slots[i].pc \in Phase2Pcs) =>
                   /\ batches[b].slots[i].pc = "miss"
                   /\ batches'[b].slots[i].pc = "wait"
                   /\ \A j \in Slots(b) : Classified(b, j)
            /\ (batches[b].slots[i].pc # "fetch"
                    /\ batches'[b].slots[i].pc = "fetch") =>
                   batches[b].slots[i].pc = "wait"]_vars

\* a batch whose first symbol hit and whose second missed has the request
\* for the second in flight
C27_Witness ==
    \E b \in Batches :
        /\ batches[b].pc = "phase2"
        /\ batches[b].slots[1].pc = "hit"
        /\ 2 \in Slots(b) /\ batches[b].slots[2].pc = "fetch"
        /\ batches[b].cache_misses_symbols = << Symbol(b, 2) >>

---------------------------------------------------------------------------
(* C28 *)

\* C28: a batch makes at most one upstream client, and makes it exactly
\* when Phase 2 starts, that is when at least one lookup missed; the client
\* is open while the batch is in Phase 2, so while any fetch_from_api
\* waits for the gate or for the upstream; a batch that has returned or
\* raised has no open client, whether its fetches answered or failed.
C28_OneClientPerPhase2 ==
    \A b \in Batches :
        /\ batches[b].clients \in {0, 1}
        /\ batches[b].clients = 1 <=> batches[b].client # "none"
        /\ batches[b].client = "open" <=> batches[b].pc = "phase2"
        /\ batches[b].pc \in {"idle", "phase1", "raised"} =>
               batches[b].clients = 0
        /\ \A i \in Slots(b) :
               batches[b].slots[i].pc \in {"wait", "fetch"} =>
                   batches[b].client = "open"
        /\ Returned(b) =>
               /\ batches[b].clients = 1
                      <=> batches[b].cache_misses_symbols # <<>>
               /\ batches[b].client = "closed"
                      <=> batches[b].cache_misses_symbols # <<>>

\* one batch has returned after a fetch of it failed, with its client
\* closed, and a later batch whose only lookup hit has returned without
\* having made a client
C28_Witness ==
    \E b, d \in Batches :
        /\ Returned(b)
        /\ DOMAIN batches[b].errors # {}
        /\ batches[b].client = "closed" /\ batches[b].clients = 1
        /\ Returned(d)
        /\ batches[d].cache_hits = Len(batches[d].req.symbols)
        /\ batches[d].client = "none" /\ batches[d].clients = 0

---------------------------------------------------------------------------
(* C29 *)

\* the handles of keys other than k that are held
OtherHeld(k) == { j \in DOMAIN refresh_locks \ {k} : refresh_locks[j] }

\* C29: the first step of a refresh is dropped exactly when a refresh of
\* its own key is in flight; when none is, it sends its upstream request in
\* that step, also while handles of other keys are held; the step leaves
\* the handles of the other keys and the refreshes of the other keys as
\* they were.
C29_OnlySameKeySerialized ==
    [][\A c \in Calls :
         RefreshStarts(c) =>
             /\ tasks'[c].pc = "skipped" <=> Refreshing(Key(c)) # {}
             /\ tasks'[c].pc = "fetch" <=> Refreshing(Key(c)) = {}
             /\ \A j \in DOMAIN refresh_locks \ {Key(c)} :
                    refresh_locks'[j] = refresh_locks[j]
             /\ OtherHeld(Key(c))' = OtherHeld(Key(c))
             /\ \A d \in Calls \ {c} : tasks'[d] = tasks[d]]_vars

\* the refreshes of a stock and of an index are in flight at the same time,
\* each holding the handle of its key
C29_Witness ==
    \E c, d \in Calls :
        /\ Key(c) # Key(d)
        /\ tasks[c].pc \in {"fetch", "set"}
        /\ tasks[d].pc = "fetch"
        /\ refresh_locks[Key(c)] /\ refresh_locks[Key(d)]
        /\ OtherHeld(Key(d)) = {Key(c)}

---------------------------------------------------------------------------
(* C30 *)

\* the step in which call c comes back from the store of an empty payload
EmptyStoreReturns(c) == StoreReturns(c) /\ calls[c].data = <<>>

\* the step in which the upstream answers slot i of batch b with nothing
BatchFetchesEmpty(b, i) ==
    /\ batches[b].slots[i].pc = "fetch"
    /\ batches'[b].slots[i].pc = "fetched"
    /\ batches'[b].slots[i].data = <<>>

\* the step in which the detached cache.set of slot i of batch b ends
BatchWriteEnds(b, i) ==
    /\ batches[b].slots[i].pc = "fetched"
    /\ batches[b].slots[i].task.pc = "pending"
    /\ batches'[b].slots[i].task.pc \in {"done", "failed"}

\* an entry that is there and holds an empty payload
HoldsEmpty(entry) == entry.present /\ entry.ttl > 0 /\ entry.data = <<>>

\* a lookup that finds an empty payload is a hit: the single call gets the
\* payload and never fetches, the batch never classifies it as a miss
EmptyEntryHits ==
    /\ [][/\ \A c \in Calls :
              (calls[c].pc = "idle" /\ calls'[c].pc = "lookup"
                   /\ HoldsEmpty(cache[KeyOf(workload[c])])) =>
                  calls'[c].cached_data = SomeData(<<>>)
          /\ \A b \in Batches : \A i \in Slots(b) :
              (batches[b].slots[i].pc = "lookup"
                   /\ HoldsEmpty(cache[Info(b, i).cache_key])) =>
                  /\ batches'[b].slots[i].pc # "miss"
                  /\ batches'[b].slots[i].pc = "hit" =>
                         batches'[b].results[Normalized(b, i)] = <<>>]_vars
    /\ [](\A c \in Calls :
            calls[c].cached_data = SomeData(<<>>) =>
                /\ calls[c].fetches = 0
                /\ calls[c].pc = "done" =>
                       /\ calls[c].result.cached
                       /\ calls[c].result.data = <<>>
                       /\ calls[c].result.error = NoError)

\* an empty upstream answer goes into results, not into errors
EmptyAnswerIsResult ==
    [][\A b \in Batches : \A i \in Slots(b) :
         BatchFetchesEmpty(b, i) =>
             /\ Normalized(b, i) \in DOMAIN batches'[b].results
             /\ batches'[b].results[Normalized(b, i)] = <<>>
             /\ batches'[b].errors = batches[b].errors]_vars

---------------------------------------------------------------------------
(* C31 *)

\* the refresh tasks of the batches that hold the handle of key k
BatchRefreshing(k) ==
    { s \in AllSlots : /\ batches[s[1]].slots[s[2]].pc = "hit"
                       /\ batches[s[1]].slots[s[2]].task.pc \in {"fetch", "set"}
                       /\ Info(s[1], s[2]).cache_key = k }

\* the refresh tasks of single calls that have run their first stretch for
\* key k
Attempted(k) ==
    { c \in Calls : tasks[c].pc \notin {"none", "created"} /\ Key(c) = k }

\* the same for the refresh tasks of the batches
BatchAttempted(k) ==
    { s \in AllSlots : /\ batches[s[1]].slots[s[2]].pc = "hit"
                       /\ batches[s[1]].slots[s[2]].task.pc
                              \notin {"none", "created"}
                       /\ Info(s[1], s[2]).cache_key = k }

\* C31: once the service has been made it stays made; from then on the
\* registry only gains keys, a key is in it exactly when a refresh has been
\* attempted for it, a held handle becomes free only in a step in which
\* its holder ends (so it is never swapped for a new one under a running
\* refresh), and the gate has as many permits out as there are Phase-2
\* requests in flight; obtaining the service again changes neither.
C31_RegistryOnlyGrows ==
    /\ [][instance.made =>
             /\ instance'.made
             /\ DOMAIN refresh_locks \subseteq DOMAIN refresh_locks'
             /\ \A k \in DOMAIN refresh_locks :
                    (refresh_locks[k] /\ ~refresh_locks'[k]) =>
                        \/ Refreshing(k) # {} /\ Refreshing(k)' = {}
                        \/ BatchRefreshing(k) # {} /\ BatchRefreshing(k)' = {}
             /\ instance'.news # instance.news =>
                    /\ refresh_locks' = refresh_locks
                    /\ semaphore' = semaphore]_vars
    /\ [](instance.made =>
             /\ \A k \in DOMAIN cache :
                    k \in DOMAIN refresh_locks
                        <=> (Attempted(k) # {} \/ BatchAttempted(k) # {})
             /\ \A k \in DOMAIN refresh_locks :
                    refresh_locks[k] <=>
                        Cardinality(Refreshing(k))
                            + Cardinality(BatchRefreshing(k)) = 1
             /\ DOMAIN refresh_locks \subseteq DOMAIN cache
             /\ semaphore + Cardinality(FetchesInFlight)
                    = max_concurrent_fetches)

\* the service has been obtained a second time while a refresh held the
\* handle of its key and a Phase-2 request held a permit of the gate
C31_Witness ==
    /\ instance = [made |-> TRUE, news |-> 2]
    /\ \E k \in DOMAIN refresh_locks : refresh_locks[k]
    /\ FetchesInFlight # {}
    /\ semaphore = max_concurrent_fetches - 1

---------------------------------------------------------------------------
(* C32 *)

\* t is s without its leading markers and in upper case
IsCanonicalOf(t, s) ==
    \E n \in 0..Len(s) :
        /\ \A i \in 1..n : s[i] = "^"
        /\ n = Len(s) \/ s[n + 1] # "^"
        /\ IsUppercaseOf(t, SubSeq(s, n + 1, Len(s)))

\* C32: the symbol of every result a single call returns, on a hit, a miss
\* and an error, is the canonical form of the symbol the call was made
\* with; every key of the results and errors maps of a batch is the
\* canonical form of a listed symbol, and every listed symbol that has
\* been answered is in the maps under its canonical form.
C32_CanonicalSymbolDownstream ==
    /\ \A c \in Calls :
          calls[c].pc = "done" =>
              IsCanonicalOf(calls[c].result.symbol, calls[c].req.symbol)
    /\ \A b \in Batches :
          /\ \A k \in DOMAIN batches[b].results \cup DOMAIN batches[b].errors :
                 \E i \in Slots(b) : IsCanonicalOf(k, Symbol(b, i))
          /\ \A i \in Slots(b) :
                 /\ batches[b].slots[i].pc \in {"hit", "fetched"} =>
                        \E k \in DOMAIN batches[b].results :
                            IsCanonicalOf(k, Symbol(b, i))
                 /\ batches[b].slots[i].pc = "error" =>
                        \E k \in DOMAIN batches[b].errors :
                            IsCanonicalOf(k, Symbol(b, i))

\* an index asked for with its marker has been answered from the cache,
\* after a stock asked for in lower case got the error of its fetch
C32_Witness ==
    \E c, d \in Calls :
        /\ calls[c].pc = "done" /\ calls[c].req.is_index
        /\ calls[c].req.symbol = <<"^", "A">>
        /\ calls[c].result.symbol = <<"A">> /\ calls[c].result.cached
        /\ calls[d].pc = "done" /\ ~calls[d].req.is_index
        /\ calls[d].req.symbol = <<"a">>
        /\ calls[d].result.symbol = <<"A">>
        /\ calls[d].result.error # NoError

---------------------------------------------------------------------------
(* C33 *)

\* u is the canonical form of s with the index marker in front
IsMarkedCanonicalOf(u, s) ==
    /\ u # <<>> /\ Head(u) = "^"
    /\ IsCanonicalOf(Tail(u), s)

\* C33: every upstream request made for an index, by a single call on a
\* miss, by a background refresh or by a batch in Phase 2, carries the
\* canonical symbol with the marker in front, whether or not the symbol
\* asked for had the marker.
C33_IndexSymbolUpstream ==
    /\ \A c \in Calls :
          calls[c].req.is_index =>
              /\ calls[c].fetches > 0 =>
                     IsMarkedCanonicalOf(calls[c].api_symbol, calls[c].req.symbol)
              /\ tasks[c].pc \in {"fetch", "set", "done", "failed"} =>
                     IsMarkedCanonicalOf(tasks[c].api_symbol, calls[c].req.symbol)
    /\ \A b \in Batches : \A i \in Slots(b) :
          batches[b].req.is_index =>
              /\ batches[b].slots[i].pc \in {"fetch", "fetched", "error"} =>
                     IsMarkedCanonicalOf(batches[b].slots[i].api_symbol,
                                         Symbol(b, i))
              /\ (batches[b].slots[i].pc = "hit"
                     /\ batches[b].slots[i].task.pc
                            \in {"fetch", "set", "done", "failed"}) =>
                     IsMarkedCanonicalOf(batches[b].slots[i].task.api_symbol,
                                         Symbol(b, i))

(* C34 *)
\* the place, in the order of the upstream requests, of the request that
\* fetched the payload data (0 when no recorded request fetched it)
PlaceOfPayload(data) ==
    IF data = <<>> \/ data[1] \notin Calls THEN 0
    ELSE IF calls[data[1]].started > 0 THEN calls[data[1]].started
    ELSE tasks[data[1]].started

\* the store of the step, done by a writer whose request had the given place,
\* does not replace a payload whose request was sent later
KeepsOrder(k, place) ==
    cache[k].present => PlaceOfPayload(cache[k].data) <= place

\* C34: a store of a payload (a miss store of a call or the store of a refresh
\* task) never replaces, under the same key, a payload whose upstream request
\* was sent later than the request of the payload being stored.
C34_NeverGoesBackwards ==
    [][\A c \in Calls :
          /\ CallStores(c) => KeepsOrder(Key(c), calls[c].started)
          /\ RefreshStores(c) => KeepsOrder(Key(c), tasks[c].started)]_vars

(* C35 *)
\* the step in which the store of call c, made after its upstream fetch
\* succeeded, ends without the payload being stored: the backend raised
StoreFails(c) ==
    /\ calls[c].pc = "set" /\ calls'[c].pc = "done"
    /\ cache'[Key(c)] # Entry(calls[c].data, GetTtl)

\* C35: in the miss path of a single call, when the upstream fetch succeeded
\* and the cache store that follows fails with a backend error, the call
\* still returns the fetched payload with no error.
C35_StoreFailureNotReported ==
    [][\A c \in Calls :
          StoreFails(c) =>
              /\ calls'[c].result.data = calls[c].data
              /\ calls'[c].result.error = NoError]_vars

(* C36 *)
\* the lookup of the call found an entry that needs no refresh
FoundFresh(call) == IsCacheHit(call.cached_data) /\ ~call.needs_refresh

\* slot i of batch b holds a lookup that found an entry that needs no refresh
SlotFoundFresh(slot) == slot.pc = "hit" /\ slot.task.pc = "none"

\* what no step of a fresh hit touches: the backend, the lock registry, the
\* permits of the fetch gate
NothingShared ==
    /\ cache' = cache
    /\ refresh_locks' = refresh_locks
    /\ semaphore' = semaphore

\* C36: a single call, or a Phase-1 lookup of a batch, that finds a fresh
\* entry sends no upstream request, creates no refresh task, writes nothing
\* to the cache backend and leaves the registry of refresh locks as it was.
C36_FreshHitChangesNothing ==
    /\ [][\A c \in Calls :
            (calls'[c] # calls[c] /\ FoundFresh(calls'[c])) =>
                /\ NothingShared
                /\ tasks' = tasks /\ tasks[c] = NoTask
                /\ calls'[c].fetches = 0
                /\ calls'[c].api_symbol = <<>>]_vars
    /\ [][\A b \in Batches : \A i \in Slots(b) :
            /\ (/\ batches[b].slots[i].pc = "lookup"
                /\ SlotFoundFresh(batches'[b].slots[i])) =>
                   /\ NothingShared
                   /\ tasks' = tasks
                   /\ batches'[b].slots[i].task = NoTask
                   /\ batches'[b].slots[i].api_symbol = <<>>
                   /\ batches'[b].background_refreshes
                          = batches[b].background_refreshes
            /\ SlotFoundFresh(batches[b].slots[i]) =>
                   batches'[b].slots[i] = batches[b].slots[i]]_vars
    /\ [](\A c \in Calls : FoundFresh(calls[c]) => tasks[c] = NoTask)

\* a single call returned a fresh hit and a batch returned with a slot whose
\* lookup found a fresh entry
C36_Witness ==
    /\ \E c \in Calls :
          /\ calls[c].pc = "done" /\ FoundFresh(calls[c])
          /\ FreshHitOutcome(calls[c].result)
    /\ \E b \in Batches : \E i \in Slots(b) :
          /\ Returned(b)
          /\ SlotFoundFresh(batches[b].slots[i])

====
